---- MODULE Spec2Model ----
(***************************************************************************)
(* A model of chord-engine: the 16-bit Turing-machine shift register       *)
(* (engine/turing.py), the progression generator (engine/generator.py)     *)
(* and the music-theory tables it calls (engine/theory.py).                *)
(*                                                                         *)
(* Python integers are unbounded, so `register` is an Int here and the     *)
(* 16-bit mask is applied exactly where the code applies it.  For a        *)
(* non-negative mask m = 2^k - 1 and any Python int x:                     *)
(*      x & m   = x mod 2^k            (floor modulus, also for x < 0)     *)
(*      x & ~m  = x - (x mod 2^k)                                          *)
(*      a | b   = a + b                when a and b share no set bit       *)
(* TLC's % is the floor modulus and \div the floor division.               *)
(***************************************************************************)
EXTENDS Integers, Sequences, FiniteSets, TLC

VARIABLES
    turing,     \* the TuringRegister under test: [register, length, probability]
    lastOp,     \* the last call made on it: [name, arg, larg, ret, pre, seq]
    outs,       \* the values returned by step() since construction, in order
    saved,      \* save/restore scenario: [phase, state, after, again]
    gens,       \* the ProgressionGenerator instances, by identity
    resume,     \* resume scenario: [phase, at]
    genOp,      \* the last call made on gens[1]:
                \*   [name, sarg, narg, draws, raised, ret, pre, seq]
    wc,         \* a call of _weighted_choice: [row, v, n, done, ret]
    dc,         \* a call of get_diatonic_chord:
                \*   [scale, key, voicing, degree, done, raised, ret]
    bias,       \* the trial loop of test_smooth_mode_prefers_V_to_I:
                \*   [key, scale, i, resolved, b, byte_hits]
    rh,         \* a call of a rhythm function:
                \*   [fn, pattern, beats, done, raised, ret]
    api         \* the API layer: the global `generator` (an index into gens,
                \* 0 for None), the requests in flight and the last response

regVars == <<turing, lastOp, outs, saved>>
callVars == <<dc, bias, rh, api>>
genVars == <<gens, resume, genOp, wc, callVars>>
vars == <<turing, lastOp, outs, saved, gens, resume, genOp, wc, dc, bias, rh,
          api>>

----------------------------------------------------------------------------
(* Bounds of the model                                                     *)

\* probabilities are multiples of 1/ProbScale: 0 is 0.0, ProbScale is 1.0
ProbScale == 4
\* step() calls in the locked-loop specification (two full loops of 16)
MaxLockedSteps == 33
\* calls (of any kind) after construction in the full register specification
MaxOps == 3
\* step() calls at probability 1: two double loops of the longest length
MaxFlipSteps == 32
\* step() calls in the save/restore specification
MaxSaveSteps == 5

\* step() calls per generator in the generator specifications
MaxGenSteps == 4
\* calls made on the single generator of SpecGen
MaxGenOps == 2
\* step() calls on the generator of SpecSwitch
MaxSwitchSteps == 3
\* bars of a rhythm pattern
MaxPatternLen == 3
\* requests handled one after the other by the API (SpecApi)
MaxApiRequests == 2
\* threads of the server's pool and GET /step requests they handle
\* (SpecApiRace)
NumClients == 2
MaxRaceRequests == 2
\* step() calls on the generator of SpecGenLocked: two loops of length 8
MaxGenLockedSteps == 16

\* seeds passed to the constructor: above 16 bits, in range, and negative
WideSeedArgs == {\h10000, \h1FFFF, \h2A5C3}
SeedArgs == {0, 1, 66, \hA5C3, \hCAFE, \hFFFE, \hFFFF, -1, -23870}
\* values random.getrandbits(16) may return (a sample of 0..65535)
RandomDraws == {0, \h5A3C, \hFFFF}
\* lengths passed to the constructor and to set_length
LengthArgs == -1..18
\* values passed to set_state
StateArgs == {0, \hA5C3, \hFFFF, \h10000, \h1FFFF, \h3C5A7, -1, -2}
\* probabilities passed to set_probability, in units of 1/ProbScale
ProbArgs == {-1, 0, ProbScale \div 2, ProbScale, ProbScale + 1}
\* scale sizes passed to get_scale_degree
DegreeArgs == {1, 5, 6, 7, 8, 12}
\* arguments of the calls on a single generator (SpecGen); "H" is no note
\* name and "bogus" no scale name
CtorKeyArgs == {"C", "H"}
CtorScaleArgs == {"ionian", "minor_pentatonic", "bogus"}
CtorMutationArgs == {0, ProbScale \div 2}
CtorSeedArgs == {66, \hA5C3}
CountArgs == {0, 2, 3}
SetKeyArgs == {"Bb", "H"}
SetScaleArgs == {"whole_tone", "bebop_major", "minor_pentatonic", "bogus"}
SetVoicingArgs == {"triads", "bogus"}
SetMutationArgs == {-1, ProbScale \div 2, ProbScale + 1}
SetLengthArgs == {1, 8, 17}
\* the least and the greatest value random.random() returns during a call on
\* the single generator: the least flips at every probability above 0, the
\* greatest only at probability 1
GenDraws == {0, ProbScale - 1}
\* arguments of get_diatonic_chord (SpecChord); the scale is any key of SCALES
ChordKeyArgs == {"C", "Db", "F#", "Bb"}
ChordVoicingArgs == {"triads", "sevenths", "extensions", "altered", "bogus", ""}
ChordDegreeArgs == -9..17
\* seeds of the generator of SpecSwitch
SwitchSeedArgs == {9, 66, \hA5C3, \h1FFFF}
\* entries of a rhythm pattern and meters (SpecRhythm)
PatternEntryArgs == -1..4
BeatsArgs == {3, 4}
\* query parameters of the API requests (SpecApi)
ParamNames == {"key", "scale", "length", "mutation", "voicing", "mode"}
ConfigureKeyArgs == {"Bb", "H"}
ProgressionKeyArgs == {"C", "H"}
ProgressionScaleArgs == {"ionian", "minor_pentatonic"}
\* arguments of simple_to_pattern
SimpleArgs == -1..5
\* loop lengths of the generator of SpecGenLocked
GenLockedLengthArgs == {1, 3, 8}
\* arguments of the generator constructor
GenSeedArgs == {66, 12345, \hA5C3, \h1FFFF}
GenLengthArgs == {3, 8}
GenKeyArgs == {"C", "Bb", "F#"}
GenScaleArgs == {"ionian", "dorian", "minor_pentatonic", "whole_tone",
                 "bebop_major"}
GenVoicingArgs == {"triads", "sevenths", "altered", "bogus"}
GenModeArgs == {"raw", "smooth"}
\* what random.random() may return, in units of 1/ProbScale: [0.0, 1.0)
RandomFloats == 0..(ProbScale - 1)

----------------------------------------------------------------------------
(* Integer helpers                                                         *)

Max(a, b) == IF a >= b THEN a ELSE b
Min(a, b) == IF a <= b THEN a ELSE b

\* 1 << n
Shl1(n) == 2 ^ n
\* x & ((1 << k) - 1)
AndMask(x, k) == x % Shl1(k)
\* x & ~((1 << k) - 1)
AndNotMask(x, k) == x - (x % Shl1(k))
\* bit i of x (x >> i) & 1
Bit(x, i) == (x \div Shl1(i)) % 2

----------------------------------------------------------------------------
(* engine/turing.py : TuringRegister                                       *)

\* __init__(seed, length) with an explicit seed
TuringInit(seed, length) ==
    [register    |-> seed,
     length      |-> Max(2, Min(16, length)),
     probability |-> 0]

\* a flip decided by `<=`: a draw of 0.0 flips at probability 0.0
FlipDecisionInclusive(r, probability) == r <= probability

\* `random.random() < self.probability`
FlipDecision(r, probability) == r < probability

\* a step() that shifts the loop and never writes the feedback bit back
TuringStepNoFeedback(t, r) ==
    LET loop_bits == AndMask(t.register, t.length) \div 2
    IN  [t EXCEPT !.register =
                     (AndNotMask(t.register, t.length) + loop_bits) % 65536]

\* a step() that returns the bits in the wrong order of steps: the loop is
\* rotated left instead of right
TuringStepRotateLeft(t, r) ==
    LET loop_bits0 == AndMask(t.register, t.length)
        top        == loop_bits0 \div Shl1(t.length - 1)
        loop_bits  == ((loop_bits0 * 2) % Shl1(t.length)) + top
    IN  [t EXCEPT !.register =
                     (AndNotMask(t.register, t.length) + loop_bits) % 65536]

\* a step() that stores the loop alone and loses the bits above it
TuringStepDropsUpper(t, r) ==
    LET loop_bits0   == AndMask(t.register, t.length)
        feedback0    == loop_bits0 % 2
        feedback_bit == IF r < t.probability THEN 1 - feedback0 ELSE feedback0
    IN  [t EXCEPT !.register =
                     (loop_bits0 \div 2) + feedback_bit * Shl1(t.length - 1)]

\* step(): the register after one clock step; r is what random.random() returned
TuringStep(t, r) ==
    LET loop_bits0   == AndMask(t.register, t.length)
        feedback0    == loop_bits0 % 2
        feedback_bit == IF FlipDecision(r, t.probability)
                        THEN 1 - feedback0 ELSE feedback0
        loop_bits    == (loop_bits0 \div 2) + feedback_bit * Shl1(t.length - 1)
        combined     == AndNotMask(t.register, t.length) + loop_bits
    IN  [t EXCEPT !.register = combined % 65536]

\* the value step() returns, given the register it leaves behind
StepOutput(t) == t.register % 256

\* a get_scale_degree that reduces the whole register, not its low byte
GetScaleDegreeWholeRegister(t, num_degrees) == t.register % num_degrees

\* get_scale_degree(num_degrees)
GetScaleDegree(t, num_degrees) == (t.register % 256) % num_degrees

\* get_state()
GetState(t) == t.register

\* a set_state that stores its argument unmasked
SetStateNoMask(t, state) == [t EXCEPT !.register = state]

\* set_state(state)
SetState(t, state) == [t EXCEPT !.register = state % 65536]

\* a set_probability that clamps below only
SetProbabilityNoUpperClamp(t, p) == [t EXCEPT !.probability = Max(0, p)]

\* set_probability(p)
SetProbability(t, p) == [t EXCEPT !.probability = Max(0, Min(ProbScale, p))]

\* set_length(length)
SetLength(t, length) == [t EXCEPT !.length = Max(2, Min(16, length))]

----------------------------------------------------------------------------
(* engine/theory.py : tables                                               *)

\* SHARPS, FLATS: the two spellings of the twelve pitch classes
SHARPS == <<"C", "C#", "D", "D#", "E", "F", "F#", "G", "G#", "A", "A#", "B">>
FLATS == <<"C", "Db", "D", "Eb", "E", "F", "Gb", "G", "Ab", "A", "Bb", "B">>

\* FLAT_KEYS: the keys spelled with flats
FLAT_KEYS == {"F", "Bb", "Eb", "Ab", "Db", "Gb", "Dm", "Gm", "Cm", "Fm", "Bbm", "Ebm"}

\* SCALES: scale name -> intervals from the root, in semitones
SCALES ==
       ("ionian" :> <<0, 2, 4, 5, 7, 9, 11>>)
    @@ ("dorian" :> <<0, 2, 3, 5, 7, 9, 10>>)
    @@ ("phrygian" :> <<0, 1, 3, 5, 7, 8, 10>>)
    @@ ("lydian" :> <<0, 2, 4, 6, 7, 9, 11>>)
    @@ ("mixolydian" :> <<0, 2, 4, 5, 7, 9, 10>>)
    @@ ("aeolian" :> <<0, 2, 3, 5, 7, 8, 10>>)
    @@ ("locrian" :> <<0, 1, 3, 5, 6, 8, 10>>)
    @@ ("harmonic_minor" :> <<0, 2, 3, 5, 7, 8, 11>>)
    @@ ("phrygian_dominant" :> <<0, 1, 4, 5, 7, 8, 10>>)
    @@ ("melodic_minor" :> <<0, 2, 3, 5, 7, 9, 11>>)
    @@ ("lydian_dominant" :> <<0, 2, 4, 6, 7, 9, 10>>)
    @@ ("altered" :> <<0, 1, 3, 4, 6, 8, 10>>)
    @@ ("whole_tone" :> <<0, 2, 4, 6, 8, 10>>)
    @@ ("dim_whole_half" :> <<0, 2, 3, 5, 6, 8, 9, 11>>)
    @@ ("dim_half_whole" :> <<0, 1, 3, 4, 6, 7, 9, 10>>)
    @@ ("blues" :> <<0, 3, 5, 6, 7, 10>>)
    @@ ("minor_pentatonic" :> <<0, 3, 5, 7, 10>>)
    @@ ("major_pentatonic" :> <<0, 2, 4, 7, 9>>)
    @@ ("bebop_dominant" :> <<0, 2, 4, 5, 7, 9, 10, 11>>)
    @@ ("bebop_major" :> <<0, 2, 4, 5, 7, 8, 9, 11>>)

\* CHORD_TYPES: chord quality -> intervals from the chord root
CHORD_TYPES ==
       ("maj" :> <<0, 4, 7>>)
    @@ ("min" :> <<0, 3, 7>>)
    @@ ("dim" :> <<0, 3, 6>>)
    @@ ("aug" :> <<0, 4, 8>>)
    @@ ("sus2" :> <<0, 2, 7>>)
    @@ ("sus4" :> <<0, 5, 7>>)
    @@ ("maj7" :> <<0, 4, 7, 11>>)
    @@ ("min7" :> <<0, 3, 7, 10>>)
    @@ ("dom7" :> <<0, 4, 7, 10>>)
    @@ ("min7b5" :> <<0, 3, 6, 10>>)
    @@ ("dim7" :> <<0, 3, 6, 9>>)
    @@ ("minmaj7" :> <<0, 3, 7, 11>>)
    @@ ("7sus4" :> <<0, 5, 7, 10>>)
    @@ ("maj9" :> <<0, 4, 7, 11, 14>>)
    @@ ("min9" :> <<0, 3, 7, 10, 14>>)
    @@ ("dom9" :> <<0, 4, 7, 10, 14>>)
    @@ ("add9" :> <<0, 4, 7, 14>>)
    @@ ("min11" :> <<0, 3, 7, 10, 14, 17>>)
    @@ ("dom11" :> <<0, 4, 7, 10, 14, 17>>)
    @@ ("maj13" :> <<0, 4, 7, 11, 14, 21>>)
    @@ ("min13" :> <<0, 3, 7, 10, 14, 21>>)
    @@ ("dom13" :> <<0, 4, 7, 10, 14, 21>>)
    @@ ("7b9" :> <<0, 4, 7, 10, 13>>)
    @@ ("7#9" :> <<0, 4, 7, 10, 15>>)
    @@ ("7b5" :> <<0, 4, 6, 10>>)
    @@ ("7#5" :> <<0, 4, 8, 10>>)
    @@ ("7alt" :> <<0, 4, 8, 10, 13>>)

\* CHORD_SYMBOLS: chord quality -> display suffix
CHORD_SYMBOLS ==
       ("maj" :> "")
    @@ ("min" :> "m")
    @@ ("dim" :> "dim")
    @@ ("aug" :> "aug")
    @@ ("sus2" :> "sus2")
    @@ ("sus4" :> "sus4")
    @@ ("maj7" :> "maj7")
    @@ ("min7" :> "m7")
    @@ ("dom7" :> "7")
    @@ ("min7b5" :> "m7b5")
    @@ ("dim7" :> "dim7")
    @@ ("minmaj7" :> "mMaj7")
    @@ ("7sus4" :> "7sus4")
    @@ ("maj9" :> "maj9")
    @@ ("min9" :> "m9")
    @@ ("dom9" :> "9")
    @@ ("add9" :> "add9")
    @@ ("min11" :> "m11")
    @@ ("dom11" :> "11")
    @@ ("maj13" :> "maj13")
    @@ ("min13" :> "m13")
    @@ ("dom13" :> "13")
    @@ ("7b9" :> "7b9")
    @@ ("7#9" :> "7#9")
    @@ ("7b5" :> "7b5")
    @@ ("7#5" :> "7#5")
    @@ ("7alt" :> "7alt")

\* ROMAN: roman numeral labels
ROMAN == <<"I", "II", "III", "IV", "V", "VI", "VII">>

\* DIATONIC_CHORDS: scale name -> voicing -> chord quality per degree
DIATONIC_CHORDS ==
       ("ionian" :> (
               ("triads" :> <<"maj", "min", "min", "maj", "maj", "min", "dim">>)
            @@ ("sevenths" :> <<"maj7", "min7", "min7", "maj7", "dom7", "min7", "min7b5">>)
            @@ ("extensions" :> <<"maj9", "min9", "min7", "maj9", "dom13", "min9", "min7b5">>)
            @@ ("altered" :> <<"maj9", "min9", "min7", "maj9", "7alt", "min9", "min7b5">>)))
    @@ ("dorian" :> (
               ("triads" :> <<"min", "min", "maj", "maj", "min", "dim", "maj">>)
            @@ ("sevenths" :> <<"min7", "min7", "maj7", "dom7", "min7", "min7b5", "maj7">>)
            @@ ("extensions" :> <<"min9", "min7", "maj9", "dom9", "min9", "min7b5", "maj9">>)
            @@ ("altered" :> <<"min9", "min7", "maj9", "7alt", "min9", "min7b5", "maj9">>)))
    @@ ("mixolydian" :> (
               ("triads" :> <<"maj", "min", "dim", "maj", "min", "min", "maj">>)
            @@ ("sevenths" :> <<"dom7", "min7", "min7b5", "maj7", "min7", "min7", "maj7">>)
            @@ ("extensions" :> <<"dom9", "min9", "min7b5", "maj9", "min9", "min7", "maj9">>)
            @@ ("altered" :> <<"dom13", "min9", "min7b5", "maj9", "min9", "min7", "maj9">>)))
    @@ ("aeolian" :> (
               ("triads" :> <<"min", "dim", "maj", "min", "min", "maj", "maj">>)
            @@ ("sevenths" :> <<"min7", "min7b5", "maj7", "min7", "min7", "maj7", "dom7">>)
            @@ ("extensions" :> <<"min9", "min7b5", "maj9", "min9", "min7", "maj9", "dom9">>)
            @@ ("altered" :> <<"min9", "min7b5", "maj9", "min9", "min7", "maj9", "7alt">>)))
    @@ ("harmonic_minor" :> (
               ("triads" :> <<"min", "dim", "aug", "min", "maj", "maj", "dim">>)
            @@ ("sevenths" :> <<"minmaj7", "min7b5", "maj7", "min7", "dom7", "maj7", "dim7">>)
            @@ ("extensions" :> <<"minmaj7", "min7b5", "maj7", "min9", "dom7", "maj9", "dim7">>)
            @@ ("altered" :> <<"minmaj7", "min7b5", "maj7", "min9", "7b9", "maj9", "dim7">>)))
    @@ ("melodic_minor" :> (
               ("triads" :> <<"min", "min", "aug", "maj", "maj", "dim", "dim">>)
            @@ ("sevenths" :> <<"minmaj7", "min7", "maj7", "dom7", "dom7", "min7b5", "min7b5">>)
            @@ ("extensions" :> <<"minmaj7", "min9", "maj7", "dom9", "dom9", "min7b5", "min7b5">>)
            @@ ("altered" :> <<"minmaj7", "min9", "maj7", "7#9", "7alt", "min7b5", "min7b5">>)))

\* DIATONIC_CHORDS_DEFAULT: the map of a scale DIATONIC_CHORDS does not list
DIATONIC_CHORDS_DEFAULT ==
       ("triads" :> <<"maj", "min", "min", "maj", "maj", "min", "dim">>)
    @@ ("sevenths" :> <<"maj7", "min7", "min7", "maj7", "dom7", "min7", "min7b5">>)
    @@ ("extensions" :> <<"maj9", "min9", "min7", "maj9", "dom13", "min9", "min7b5">>)
    @@ ("altered" :> <<"maj9", "min9", "min7", "maj9", "7alt", "min9", "min7b5">>)

\* TRANSITION_WEIGHTS: from_degree -> (to_degree, weight) in insertion order.
\* The weights are stored doubled (0.5 is 1, 3 is 6): every weight of the
\* table is a multiple of 0.5, so the doubled table is integer.
TRANSITION_WEIGHTS ==
       (0 :> <<<<3, 6>>, <<4, 6>>, <<5, 4>>, <<1, 2>>, <<2, 2>>, <<6, 1>>>>)
    @@ (1 :> <<<<4, 6>>, <<0, 4>>, <<3, 2>>, <<5, 2>>>>)
    @@ (2 :> <<<<5, 6>>, <<3, 4>>, <<0, 2>>>>)
    @@ (3 :> <<<<4, 6>>, <<0, 4>>, <<1, 4>>, <<6, 2>>>>)
    @@ (4 :> <<<<0, 8>>, <<5, 4>>, <<3, 2>>>>)
    @@ (5 :> <<<<3, 6>>, <<4, 4>>, <<1, 4>>, <<2, 2>>>>)
    @@ (6 :> <<<<0, 6>>, <<4, 4>>, <<5, 2>>>>)

----------------------------------------------------------------------------
(* engine/theory.py : functions.  Python lists are 0-based, sequences here *)
(* 1-based: list[i] is seq[i + 1].                                         *)

\* x in list
InList(list, x) == \E i \in 1..Len(list) : list[i] = x
\* list.index(x): the first position of x, 0-based
ListIndex(list, x) ==
    (CHOOSE i \in 1..Len(list) :
        list[i] = x /\ \A j \in 1..(i - 1) : list[j] # x) - 1

\* str(n) for n >= 0
RECURSIVE DecimalString(_)
DecimalString(n) ==
    LET digits == <<"0", "1", "2", "3", "4", "5", "6", "7", "8", "9">>
    IN  IF n < 10 THEN digits[n + 1]
        ELSE DecimalString(n \div 10) \o digits[(n % 10) + 1]

\* note_index(name) raises ValueError
note_index_raises(name) == ~InList(SHARPS, name) /\ ~InList(FLATS, name)

\* note_index(name), for a name it accepts
note_index(name) ==
    IF InList(SHARPS, name) THEN ListIndex(SHARPS, name)
    ELSE ListIndex(FLATS, name)

\* spell(index, key)
spell(index, key) ==
    LET idx == index % 12
    IN  IF key \in FLAT_KEYS THEN FLATS[idx + 1] ELSE SHARPS[idx + 1]

\* get_scale_notes(root, scale_name) raises ValueError
get_scale_notes_raises(root, scale_name) ==
    scale_name \notin DOMAIN SCALES \/ note_index_raises(root)

\* get_scale_notes(root, scale_name), when it does not raise
get_scale_notes(root, scale_name) ==
    LET root_idx  == note_index(root)
        intervals == SCALES[scale_name]
    IN  [i \in 1..Len(intervals) |->
            spell((root_idx + intervals[i]) % 12, root)]

\* build_chord(root, quality, key), for a quality of CHORD_TYPES
build_chord(root, quality, key) ==
    LET root_idx  == note_index(root)
        intervals == CHORD_TYPES[quality]
    IN  [symbol  |-> root \o CHORD_SYMBOLS[quality],
         quality |-> quality,
         root    |-> root,
         notes   |-> [i \in 1..Len(intervals) |->
                         spell((root_idx + intervals[i]) % 12, key)]]

\* get_quality_category(quality)
get_quality_category(quality) ==
    IF quality \in {"maj", "maj7", "maj9", "maj13", "add9"} THEN "major"
    ELSE IF quality \in {"min", "min7", "min9", "min11", "min13", "minmaj7"}
         THEN "minor"
    ELSE IF quality \in {"dom7", "dom9", "dom11", "dom13", "7sus4"}
         THEN "dominant"
    ELSE IF quality \in {"dim", "dim7", "min7b5"} THEN "diminished"
    ELSE IF quality \in {"aug", "7#5"} THEN "augmented"
    ELSE IF quality \in {"sus2", "sus4"} THEN "sus"
    ELSE IF quality \in {"7b9", "7#9", "7b5", "7alt"} THEN "altered"
    ELSE "dominant"

\* the exception that leaves build_chord(root, quality, key): ValueError for
\* a quality CHORD_TYPES lacks or a root note_index rejects, KeyError for a
\* quality CHORD_SYMBOLS lacks
build_chord_error(root, quality) ==
    IF quality \notin DOMAIN CHORD_TYPES THEN "ValueError"
    ELSE IF note_index_raises(root) THEN "ValueError"
    ELSE IF quality \notin DOMAIN CHORD_SYMBOLS THEN "KeyError"
    ELSE "none"

\* a get_diatonic_chord that looks the scale and the voicing up without a
\* default
get_diatonic_chord_error_strict(scale_name, degree0, voicing, scale_notes, key) ==
    IF scale_name \notin DOMAIN DIATONIC_CHORDS THEN "KeyError"
    ELSE IF voicing \notin DOMAIN DIATONIC_CHORDS[scale_name] THEN "KeyError"
    ELSE "none"

\* the exception that leaves get_diatonic_chord, "none" when it returns
get_diatonic_chord_error(scale_name, degree0, voicing, scale_notes, key) ==
    LET chord_map == IF scale_name \in DOMAIN DIATONIC_CHORDS
                     THEN DIATONIC_CHORDS[scale_name]
                     ELSE DIATONIC_CHORDS_DEFAULT
    IN  IF voicing \notin DOMAIN chord_map /\ "sevenths" \notin DOMAIN chord_map
        THEN "KeyError"
        ELSE IF Len(scale_notes) = 0 THEN "ZeroDivisionError"
        ELSE LET voicing_map == IF voicing \in DOMAIN chord_map
                                THEN chord_map[voicing]
                                ELSE chord_map["sevenths"]
                 degree      == degree0 % Len(scale_notes)
             IN  IF Len(voicing_map) = 0 THEN "ZeroDivisionError"
                 ELSE build_chord_error(
                          scale_notes[degree + 1],
                          voicing_map[(degree % Len(voicing_map)) + 1])

\* a get_diatonic_chord that reports the degree it was asked for
get_diatonic_chord_unreduced(scale_name, degree0, voicing, scale_notes, key) ==
    LET chord_map   == IF scale_name \in DOMAIN DIATONIC_CHORDS
                       THEN DIATONIC_CHORDS[scale_name]
                       ELSE DIATONIC_CHORDS_DEFAULT
        voicing_map == IF voicing \in DOMAIN chord_map
                       THEN chord_map[voicing] ELSE chord_map["sevenths"]
        num_degrees == Len(scale_notes)
        degree      == degree0 % num_degrees
        root        == scale_notes[degree + 1]
        quality     == voicing_map[(degree % Len(voicing_map)) + 1]
        chord       == build_chord(root, quality, key)
    IN  [symbol       |-> chord.symbol,
         quality      |-> chord.quality,
         root         |-> chord.root,
         notes        |-> chord.notes,
         scale_degree |-> degree0,
         roman        |-> IF degree < Len(ROMAN) THEN ROMAN[degree + 1]
                          ELSE DecimalString(degree + 1),
         category     |-> get_quality_category(quality)]

\* a get_diatonic_chord whose fallback voicing is 'triads'
get_diatonic_chord_triads(scale_name, degree0, voicing, scale_notes, key) ==
    LET chord_map   == IF scale_name \in DOMAIN DIATONIC_CHORDS
                       THEN DIATONIC_CHORDS[scale_name]
                       ELSE DIATONIC_CHORDS_DEFAULT
        voicing_map == IF voicing \in DOMAIN chord_map
                       THEN chord_map[voicing] ELSE chord_map["triads"]
        num_degrees == Len(scale_notes)
        degree      == degree0 % num_degrees
        root        == scale_notes[degree + 1]
        quality     == voicing_map[(degree % Len(voicing_map)) + 1]
        chord       == build_chord(root, quality, key)
    IN  [symbol       |-> chord.symbol,
         quality      |-> chord.quality,
         root         |-> chord.root,
         notes        |-> chord.notes,
         scale_degree |-> degree,
         roman        |-> IF degree < Len(ROMAN) THEN ROMAN[degree + 1]
                          ELSE DecimalString(degree + 1),
         category     |-> get_quality_category(quality)]

\* get_diatonic_chord(scale_name, degree, voicing, scale_notes, key)
get_diatonic_chord(scale_name, degree0, voicing, scale_notes, key) ==
    LET chord_map   == IF scale_name \in DOMAIN DIATONIC_CHORDS
                       THEN DIATONIC_CHORDS[scale_name]
                       ELSE DIATONIC_CHORDS_DEFAULT
        voicing_map == IF voicing \in DOMAIN chord_map
                       THEN chord_map[voicing] ELSE chord_map["sevenths"]
        num_degrees == Len(scale_notes)
        degree      == degree0 % num_degrees
        root        == scale_notes[degree + 1]
        quality     == voicing_map[(degree % Len(voicing_map)) + 1]
        chord       == build_chord(root, quality, key)
    IN  [symbol       |-> chord.symbol,
         quality      |-> chord.quality,
         root         |-> chord.root,
         notes        |-> chord.notes,
         scale_degree |-> degree,
         roman        |-> IF degree < Len(ROMAN) THEN ROMAN[degree + 1]
                          ELSE DecimalString(degree + 1),
         category     |-> get_quality_category(quality)]

----------------------------------------------------------------------------
(* engine/generator.py                                                     *)

\* sum(w), doubled
RECURSIVE TotalWeight(_)
TotalWeight(weights) ==
    IF weights = <<>> THEN 0
    ELSE weights[1][2] + TotalWeight(Tail(weights))

\* a scan that also stops where the point equals the cumulative weight
RECURSIVE WeightedScanInclusive(_, _, _, _, _)
WeightedScanInclusive(weights, i, cumulative, candidate, num_degrees) ==
    IF i > Len(weights) THEN weights[Len(weights)][1]
    ELSE LET cum == cumulative + weights[i][2]
         IN  IF candidate * TotalWeight(weights) <= cum * num_degrees
             THEN weights[i][1]
             ELSE WeightedScanInclusive(weights, i + 1, cum, candidate,
                                        num_degrees)

\* the loop of _weighted_choice from position i on, `cumulative` (doubled)
\* being the running sum before it.  `point < cumulative`, with
\* point = (candidate / num_degrees) * total, is decided in integers:
\*     candidate * total < cumulative * num_degrees
\* (for every row of the table, candidate in 0..255 and num_degrees in 5..8
\* the float comparison of the code gives the same answer).
RECURSIVE WeightedScan(_, _, _, _, _)
WeightedScan(weights, i, cumulative, candidate, num_degrees) ==
    IF i > Len(weights) THEN weights[Len(weights)][1]
    ELSE LET cum == cumulative + weights[i][2]
         IN  IF candidate * TotalWeight(weights) < cum * num_degrees
             THEN weights[i][1]
             ELSE WeightedScan(weights, i + 1, cum, candidate, num_degrees)

\* _weighted_choice(weights, candidate, num_degrees)
weighted_choice(weights, candidate, num_degrees) ==
    WeightedScan(weights, 1, 0, candidate, num_degrees)

\* ProgressionGenerator(key, scale, length, mutation, voicing, mode, seed),
\* for a key and a scale get_scale_notes accepts
GenInit(key, scale, length, mutation, voicing, mode, seed) ==
    [key         |-> key,
     scale       |-> scale,
     voicing     |-> voicing,
     mode        |-> mode,
     turing      |-> SetProbability(TuringInit(seed, length), mutation),
     scale_notes |-> get_scale_notes(key, scale),
     num_degrees |-> Len(get_scale_notes(key, scale)),
     last_degree |-> 0,
     history     |-> <<>>]

\* a degree choice that hands the byte itself to _weighted_choice
ChooseDegreeFromByte(g, raw_value) ==
    LET raw_degree == raw_value % g.num_degrees
    IN  IF g.mode = "smooth" /\ g.last_degree \in DOMAIN TRANSITION_WEIGHTS
        THEN weighted_choice(TRANSITION_WEIGHTS[g.last_degree],
                             raw_value, g.num_degrees)
        ELSE raw_degree

\* a degree choice that reads the row of last_degree % 7 when last_degree has
\* no row
ChooseDegreeWrapsRow(g, raw_value) ==
    LET raw_degree == raw_value % g.num_degrees
    IN  IF g.mode = "smooth"
        THEN weighted_choice(TRANSITION_WEIGHTS[g.last_degree % 7],
                             raw_degree, g.num_degrees)
        ELSE raw_degree

\* the degree step() chooses from the byte the register returned
ChooseDegree(g, raw_value) ==
    LET raw_degree == raw_value % g.num_degrees
    IN  IF g.mode = "smooth" /\ g.last_degree \in DOMAIN TRANSITION_WEIGHTS
        THEN weighted_choice(TRANSITION_WEIGHTS[g.last_degree],
                             raw_degree, g.num_degrees)
        ELSE raw_degree

\* a step() that annotates the chord with the byte of the register before
\* the step
GenStepStaleByte(g, r) ==
    LET t          == TuringStep(g.turing, r)
        raw_value  == StepOutput(t)
        raw_degree == raw_value % g.num_degrees
        degree     == ChooseDegree(g, raw_value)
        chord      == get_diatonic_chord(g.scale, degree, g.voicing,
                                         g.scale_notes, g.key)
                      @@ [register_value |-> StepOutput(g.turing),
                          mutated        |-> (raw_degree # degree)]
    IN  [g EXCEPT !.turing = t,
                  !.last_degree = degree,
                  !.history = Append(@, chord)]

\* a step() that starts the history afresh with its chord
GenStepOverwrites(g, r) ==
    LET t          == TuringStep(g.turing, r)
        raw_value  == StepOutput(t)
        raw_degree == raw_value % g.num_degrees
        degree     == ChooseDegree(g, raw_value)
        chord      == get_diatonic_chord(g.scale, degree, g.voicing,
                                         g.scale_notes, g.key)
                      @@ [register_value |-> raw_value,
                          mutated        |-> (raw_degree # degree)]
    IN  [g EXCEPT !.turing = t,
                  !.last_degree = degree,
                  !.history = <<chord>>]

\* step(): the generator after the step; the chord returned is the last
\* entry of its history.  r is what random.random() returned.
GenStep(g, r) ==
    LET t          == TuringStep(g.turing, r)
        raw_value  == StepOutput(t)
        raw_degree == raw_value % g.num_degrees
        degree     == ChooseDegree(g, raw_value)
        chord      == get_diatonic_chord(g.scale, degree, g.voicing,
                                         g.scale_notes, g.key)
                      @@ [register_value |-> raw_value,
                          mutated        |-> (raw_degree # degree)]
    IN  [g EXCEPT !.turing = t,
                  !.last_degree = degree,
                  !.history = Append(@, chord)]

\* the exception that leaves step(), "none" when it returns
GenStepError(g, r) ==
    LET raw_value == StepOutput(TuringStep(g.turing, r))
    IN  IF g.num_degrees = 0 THEN "ZeroDivisionError"
        ELSE get_diatonic_chord_error(g.scale, ChooseDegree(g, raw_value),
                                      g.voicing, g.scale_notes, g.key)

\* what step() returned, given the generator it left behind: the chord it
\* appended to the history
StepReturn(g) == g.history[Len(g.history)]

\* a generate that stops one step early
RECURSIVE GenGenerateShort(_, _)
GenGenerateShort(g, rs) ==
    IF Len(rs) <= 1 THEN [g |-> g, ret |-> <<>>]
    ELSE LET g1   == GenStep(g, Head(rs))
             rest == GenGenerateShort(g1, Tail(rs))
         IN  [g |-> rest.g, ret |-> <<StepReturn(g1)>> \o rest.ret]

\* generate(count): rs are the values random.random() returns, one per step.
\* The generator afterwards and the list returned.
RECURSIVE GenGenerate(_, _)
GenGenerate(g, rs) ==
    IF rs = <<>> THEN [g |-> g, ret |-> <<>>]
    ELSE LET g1   == GenStep(g, Head(rs))
             rest == GenGenerate(g1, Tail(rs))
         IN  [g |-> rest.g, ret |-> <<StepReturn(g1)>> \o rest.ret]

\* the object __init__ leaves behind when get_scale_notes raises
GenPartial(key, scale, length, mutation, voicing, mode, seed) ==
    [key         |-> key,
     scale       |-> scale,
     voicing     |-> voicing,
     mode        |-> mode,
     turing      |-> SetProbability(TuringInit(seed, length), mutation),
     scale_notes |-> <<>>,
     num_degrees |-> 0,
     last_degree |-> 0,
     history     |-> <<>>]

\* ProgressionGenerator(...), for any key and scale: the object and the
\* exception that left the constructor
GenConstruct(key, scale, length, mutation, voicing, mode, seed) ==
    IF get_scale_notes_raises(key, scale)
    THEN [g      |-> GenPartial(key, scale, length, mutation, voicing, mode,
                                seed),
          raised |-> "ValueError"]
    ELSE [g      |-> GenInit(key, scale, length, mutation, voicing, mode, seed),
          raised |-> "none"]

\* a set_key that catches the error and keeps the old key
GenSetKeySwallows(g, key) ==
    IF get_scale_notes_raises(key, g.scale)
    THEN [g |-> g, raised |-> "none"]
    ELSE [g |-> [g EXCEPT !.key = key,
                          !.scale_notes = get_scale_notes(key, g.scale),
                          !.num_degrees = Len(get_scale_notes(key, g.scale))],
          raised |-> "none"]

\* set_key(key): the generator afterwards and the exception that left it
GenSetKey(g, key) ==
    IF get_scale_notes_raises(key, g.scale)
    THEN [g |-> [g EXCEPT !.key = key], raised |-> "ValueError"]
    ELSE [g |-> [g EXCEPT !.key = key,
                          !.scale_notes = get_scale_notes(key, g.scale),
                          !.num_degrees = Len(get_scale_notes(key, g.scale))],
          raised |-> "none"]

\* a set_scale that leaves scale_notes and num_degrees for later
GenSetScaleStale(g, scale) ==
    [g |-> [g EXCEPT !.scale = scale],
     raised |-> IF get_scale_notes_raises(g.key, scale) THEN "ValueError"
                ELSE "none"]

\* set_scale(scale)
GenSetScale(g, scale) ==
    IF get_scale_notes_raises(g.key, scale)
    THEN [g |-> [g EXCEPT !.scale = scale], raised |-> "ValueError"]
    ELSE [g |-> [g EXCEPT !.scale = scale,
                          !.scale_notes = get_scale_notes(g.key, scale),
                          !.num_degrees = Len(get_scale_notes(g.key, scale))],
          raised |-> "none"]

\* set_voicing(voicing)
GenSetVoicing(g, voicing) == [g EXCEPT !.voicing = voicing]

\* set_mode(mode)
GenSetMode(g, mode) == [g EXCEPT !.mode = mode]

\* set_mutation(mutation)
GenSetMutation(g, mutation) ==
    [g EXCEPT !.turing = SetProbability(@, mutation)]

\* set_length(length)
GenSetLength(g, length) == [g EXCEPT !.turing = SetLength(@, length)]

\* get_state()
GenGetState(g) ==
    [register_state |-> GetState(g.turing),
     key            |-> g.key,
     scale          |-> g.scale,
     voicing        |-> g.voicing,
     mode           |-> g.mode,
     length         |-> g.turing.length,
     mutation       |-> g.turing.probability]

----------------------------------------------------------------------------
(* api/main.py.  The query parameters of a request are a record; those of  *)
(* POST /configure carry the set `given` of the parameters that are not    *)
(* None.                                                                   *)

\* the default mutation 0.1 of ProgressionGenerator, a probability strictly
\* between 0 and 1, in units of 1/ProbScale
DefaultMutation == 1

\* ProgressionGenerator(), seed being what random.getrandbits(16) returned
DefaultGen(seed) ==
    GenInit("C", "ionian", 8, DefaultMutation, "sevenths", "raw", seed)

\* an _ensure_generator that builds a generator only when none exists
ensure_generator_reuses(heap, global, g) ==
    IF global = 0 THEN [heap |-> Append(heap, g), global |-> Len(heap) + 1]
    ELSE [heap |-> heap, global |-> global]

\* _ensure_generator(**kwargs), g being the generator the constructor
\* returned: the heap with the new object and the global naming it
ensure_generator(heap, global, g) ==
    [heap |-> Append(heap, g), global |-> Len(heap) + 1]

\* a configure that starts the generator's session over
ConfigureRebuilds(g, params) ==
    [g |-> [g EXCEPT !.last_degree = 0, !.history = <<>>],
     raised |-> "none"]

\* the body of configure() after the generator exists: the setters of the
\* parameters given, in the order of the code, up to the first that raises
ConfigureApply(g, params) ==
    LET s1 == IF "key" \in params.given THEN GenSetKey(g, params.key)
              ELSE [g |-> g, raised |-> "none"]
        s2 == IF s1.raised = "none" /\ "scale" \in params.given
              THEN GenSetScale(s1.g, params.scale) ELSE s1
        g3 == IF "length" \in params.given
              THEN GenSetLength(s2.g, params.length) ELSE s2.g
        g4 == IF "mutation" \in params.given
              THEN GenSetMutation(g3, params.mutation) ELSE g3
        g5 == IF "voicing" \in params.given
              THEN GenSetVoicing(g4, params.voicing) ELSE g4
        g6 == IF "mode" \in params.given
              THEN GenSetMode(g5, params.mode) ELSE g5
    IN  IF s2.raised = "none" THEN [g |-> g6, raised |-> "none"] ELSE s2

\* The handlers are plain functions, which the server runs on the threads
\* of a pool, and main.py takes no lock: a thread may be preempted between
\* any two reads or writes of the shared generator.  step() of the register
\* is split where it reads and where it writes self.register.

\* turing.step() up to the new loop bits: the loop bits read from the
\* register, the feedback bit maybe flipped, the shift
TuringStepRead(t, r) ==
    LET loop_bits0   == AndMask(t.register, t.length)
        feedback0    == loop_bits0 % 2
        feedback_bit == IF FlipDecision(r, t.probability) THEN 1 - feedback0
                        ELSE feedback0
    IN  (loop_bits0 \div 2) + feedback_bit * Shl1(t.length - 1)

\* turing.step() from the write on: the loop bits computed earlier replace
\* those of the register as it is now
TuringStepWrite(t, loop_bits) ==
    [t EXCEPT !.register = (AndNotMask(t.register, t.length) + loop_bits) % 65536]

\* generator.step() after turing.step() returned raw_value
GenStepAfter(g, raw_value) ==
    LET raw_degree == raw_value % g.num_degrees
        degree     == ChooseDegree(g, raw_value)
        chord      == get_diatonic_chord(g.scale, degree, g.voicing,
                                         g.scale_notes, g.key)
                      @@ [register_value |-> raw_value,
                          mutated        |-> (raw_degree # degree)]
    IN  [g EXCEPT !.last_degree = degree,
                  !.history = Append(@, chord)]

----------------------------------------------------------------------------
(* engine/rhythm.py.  A duration is a pair <<n, d>> standing for the       *)
(* number n / d: beats_per_bar / chords_in_bar is <<beats_per_bar,         *)
(* chords_in_bar>>, and adding beats_per_bar to <<n, d>> gives             *)
(* <<n + beats_per_bar * d, d>>.                                           *)

\* [x for _ in range(k)]
Repeat(x, k) == [j \in 1..Max(k, 0) |-> x]

\* a loop body whose hold replaces the previous duration by one bar
RECURSIVE ExpandFromHoldResets(_, _, _, _)
ExpandFromHoldResets(pattern, i, durations, beats_per_bar) ==
    IF i > Len(pattern) THEN [raised |-> "none", ret |-> durations]
    ELSE LET chords_in_bar == pattern[i]
         IN  IF chords_in_bar = 0
             THEN IF durations = <<>>
                  THEN [raised |-> "ValueError", ret |-> <<>>]
                  ELSE ExpandFromHoldResets(
                           pattern, i + 1,
                           [durations EXCEPT ![Len(durations)] =
                               <<beats_per_bar * @[2], @[2]>>],
                           beats_per_bar)
             ELSE ExpandFromHoldResets(
                      pattern, i + 1,
                      durations \o Repeat(<<beats_per_bar, chords_in_bar>>,
                                          chords_in_bar),
                      beats_per_bar)

\* the loop of expand_pattern from bar i on, `durations` being the list so far
RECURSIVE ExpandFrom(_, _, _, _)
ExpandFrom(pattern, i, durations, beats_per_bar) ==
    IF i > Len(pattern) THEN [raised |-> "none", ret |-> durations]
    ELSE LET chords_in_bar == pattern[i]
         IN  IF chords_in_bar = 0
             THEN IF durations = <<>>
                  THEN [raised |-> "ValueError", ret |-> <<>>]
                  ELSE ExpandFrom(
                           pattern, i + 1,
                           [durations EXCEPT ![Len(durations)] =
                               <<@[1] + beats_per_bar * @[2], @[2]>>],
                           beats_per_bar)
             ELSE ExpandFrom(
                      pattern, i + 1,
                      durations \o Repeat(<<beats_per_bar, chords_in_bar>>,
                                          chords_in_bar),
                      beats_per_bar)

\* expand_pattern(pattern, beats_per_bar): the exception that left it and the
\* list it returned
expand_pattern(pattern, beats_per_bar) ==
    IF pattern = <<>> THEN [raised |-> "ValueError", ret |-> <<>>]
    ELSE IF pattern[1] = 0 THEN [raised |-> "ValueError", ret |-> <<>>]
    ELSE ExpandFrom(pattern, 1, <<>>, beats_per_bar)

\* a simple_to_pattern that accepts both arguments above 1
simple_to_pattern_both(bars_per_chord, chords_per_bar) ==
    IF bars_per_chord < 1 \/ chords_per_bar < 1
    THEN [raised |-> "ValueError", ret |-> <<>>]
    ELSE IF bars_per_chord > 1
    THEN [raised |-> "none", ret |-> <<1>> \o Repeat(0, bars_per_chord - 1)]
    ELSE IF chords_per_bar > 1
    THEN [raised |-> "none", ret |-> <<chords_per_bar>>]
    ELSE [raised |-> "none", ret |-> <<1>>]

\* simple_to_pattern(bars_per_chord, chords_per_bar): the exception raised
\* and the pattern returned
simple_to_pattern(bars_per_chord, chords_per_bar) ==
    IF bars_per_chord < 1 \/ chords_per_bar < 1
    THEN [raised |-> "ValueError", ret |-> <<>>]
    ELSE IF bars_per_chord > 1 /\ chords_per_bar > 1
    THEN [raised |-> "ValueError", ret |-> <<>>]
    ELSE IF bars_per_chord > 1
    THEN [raised |-> "none", ret |-> <<1>> \o Repeat(0, bars_per_chord - 1)]
    ELSE IF chords_per_bar > 1
    THEN [raised |-> "none", ret |-> <<chords_per_bar>>]
    ELSE [raised |-> "none", ret |-> <<1>>]

----------------------------------------------------------------------------
(* Register operations as actions.  lastOp records the call, its argument, *)
(* its return value and the register record it was made on.                *)

NoSave == [phase |-> "none", state |-> 0, after |-> <<>>, again |-> <<>>]

Call(name, arg, larg, ret, pre, seq) ==
    [name |-> name, arg |-> arg, larg |-> larg, ret |-> ret, pre |-> pre,
     seq |-> seq]

\* TuringRegister(seed=s, length=n), or TuringRegister(length=n) with a random seed
RegConstructed ==
    \/ \E s \in WideSeedArgs, n \in LengthArgs :
          /\ turing = TuringInit(s, n)
          /\ lastOp = Call("init", s, n, 0, TuringInit(s, n), 0)
    \/ \E s \in SeedArgs, n \in LengthArgs :
          /\ turing = TuringInit(s, n)
          /\ lastOp = Call("init", s, n, 0, TuringInit(s, n), 0)
    \/ \E s \in RandomDraws, n \in LengthArgs :
          /\ turing = TuringInit(s, n)
          /\ lastOp = Call("init_random", 0, n, 0, TuringInit(s, n), 0)

NoGenOp == [name |-> "none", seq |-> 0]
NoChoice == [row |-> 0, v |-> 0, n |-> 7, done |-> FALSE, ret |-> 0]
NoChord == [done |-> FALSE]
NoBias == [i |-> 0, b |-> 0]
NoRhythm == [done |-> FALSE]
NoApi == [global |-> 0]

\* no theory, test, rhythm or API call is under way
CallIdle ==
    /\ dc = NoChord
    /\ bias = NoBias
    /\ rh = NoRhythm
    /\ api = NoApi

GenIdle == /\ gens = <<>>
           /\ resume = [phase |-> "none", at |-> 0]
           /\ genOp = NoGenOp
           /\ wc = NoChoice
           /\ CallIdle

InitReg ==
    /\ RegConstructed
    /\ outs = <<>>
    /\ saved = NoSave
    /\ GenIdle

Step ==
    \E r \in RandomFloats :
        LET t == TuringStep(turing, r) IN
        /\ turing' = t
        /\ lastOp' = Call("step", 0, 0, StepOutput(t), turing, lastOp.seq + 1)
        /\ outs' = Append(outs, StepOutput(t))

DoSetState ==
    \E v \in StateArgs :
        /\ turing' = SetState(turing, v)
        /\ lastOp' = Call("set_state", v, 0, 0, turing, lastOp.seq + 1)
        /\ UNCHANGED outs

DoSetProbability ==
    \E p \in ProbArgs :
        /\ turing' = SetProbability(turing, p)
        /\ lastOp' = Call("set_probability", p, 0, 0, turing, lastOp.seq + 1)
        /\ UNCHANGED outs

DoSetLength ==
    \E n \in LengthArgs :
        /\ turing' = SetLength(turing, n)
        /\ lastOp' = Call("set_length", 0, n, 0, turing, lastOp.seq + 1)
        /\ UNCHANGED outs

DoGetState ==
    /\ lastOp' = Call("get_state", 0, 0, GetState(turing), turing, lastOp.seq + 1)
    /\ UNCHANGED <<turing, outs>>

DoGetScaleDegree ==
    \E n \in DegreeArgs :
        /\ lastOp' = Call("get_scale_degree", n, 0, GetScaleDegree(turing, n),
                          turing, lastOp.seq + 1)
        /\ UNCHANGED <<turing, outs>>

----------------------------------------------------------------------------
(* SpecLocked: a register is constructed and only stepped; its probability *)
(* stays the constructor's 0.0.                                            *)

LockedStep ==
    /\ Len(outs) < MaxLockedSteps
    /\ Step
    /\ UNCHANGED <<saved, genVars>>

NextLocked == LockedStep

SpecLocked == InitReg /\ [][NextLocked]_vars

----------------------------------------------------------------------------
(* SpecReg: the whole register interface, any call in any order, up to     *)
(* MaxOps calls after construction.                                        *)

RegStep ==
    /\ lastOp.seq < MaxOps
    /\ Step
    /\ UNCHANGED <<saved, genVars>>

RegSetState ==
    /\ lastOp.seq < MaxOps
    /\ DoSetState
    /\ UNCHANGED <<saved, genVars>>

RegSetProbability ==
    /\ lastOp.seq < MaxOps
    /\ DoSetProbability
    /\ UNCHANGED <<saved, genVars>>

RegSetLength ==
    /\ lastOp.seq < MaxOps
    /\ DoSetLength
    /\ UNCHANGED <<saved, genVars>>

RegGetState ==
    /\ lastOp.seq < MaxOps
    /\ DoGetState
    /\ UNCHANGED <<saved, genVars>>

RegGetScaleDegree ==
    /\ lastOp.seq < MaxOps
    /\ DoGetScaleDegree
    /\ UNCHANGED <<saved, genVars>>

NextReg ==
    \/ RegStep
    \/ RegSetState
    \/ RegSetProbability
    \/ RegSetLength
    \/ RegGetState
    \/ RegGetScaleDegree

SpecReg == InitReg /\ [][NextReg]_vars

----------------------------------------------------------------------------
(* SpecSave: a register is constructed, stepped, its state read with       *)
(* get_state(), stepped further, restored with set_state() and stepped     *)
(* again; the probability stays 0.0.                                       *)

SaveStep ==
    /\ Len(outs) < MaxSaveSteps
    /\ Step
    /\ saved' = CASE saved.phase = "saved" ->
                       [saved EXCEPT !.after = Append(@, StepOutput(turing'))]
                  [] saved.phase = "restored" ->
                       [saved EXCEPT !.again = Append(@, StepOutput(turing'))]
                  [] OTHER -> saved
    /\ UNCHANGED genVars

Save ==
    /\ saved.phase = "none"
    /\ DoGetState
    /\ saved' = [saved EXCEPT !.phase = "saved", !.state = GetState(turing)]
    /\ UNCHANGED genVars

Restore ==
    /\ saved.phase = "saved"
    /\ turing' = SetState(turing, saved.state)
    /\ lastOp' = Call("set_state", saved.state, 0, 0, turing, lastOp.seq + 1)
    /\ saved' = [saved EXCEPT !.phase = "restored"]
    /\ UNCHANGED <<outs, genVars>>

NextSave == SaveStep \/ Save \/ Restore

SpecSave == InitReg /\ [][NextSave]_vars

----------------------------------------------------------------------------
(* SpecFlip: a register is constructed, its probability set to 1.0 and it  *)
(* is stepped.  saved.state is the register value when the stepping starts *)
(* and saved.after the register values after each step.                    *)

FlipSetProbability ==
    /\ saved.phase = "none"
    /\ \E p \in {ProbScale, ProbScale + 1} :
          /\ turing' = SetProbability(turing, p)
          /\ lastOp' = Call("set_probability", p, 0, 0, turing, lastOp.seq + 1)
    /\ saved' = [saved EXCEPT !.phase = "flipping", !.state = turing.register]
    /\ UNCHANGED <<outs, genVars>>

FlipStep ==
    /\ saved.phase = "flipping"
    /\ Len(outs) < MaxFlipSteps
    /\ Step
    /\ saved' = [saved EXCEPT !.after = Append(@, turing'.register)]
    /\ UNCHANGED genVars

NextFlip == FlipSetProbability \/ FlipStep

SpecFlip == InitReg /\ [][NextFlip]_vars

----------------------------------------------------------------------------
(* Generator operations as actions.  gens[i] is the i-th generator built.  *)

RegIdle ==
    /\ turing = TuringInit(0, 8)
    /\ lastOp = Call("init", 0, 8, 0, TuringInit(0, 8), 0)
    /\ outs = <<>>
    /\ saved = NoSave

\* gens[i].step()
DoGenStep(i) ==
    /\ i \in 1..Len(gens)
    /\ Len(gens[i].history) < MaxGenSteps
    /\ \E r \in RandomFloats : gens' = [gens EXCEPT ![i] = GenStep(@, r)]

----------------------------------------------------------------------------
(* SpecTwin: two generators are constructed with the same arguments and    *)
(* mutation 0.0, and each is stepped on its own.                           *)

InitTwin ==
    /\ RegIdle
    /\ \E key \in GenKeyArgs, scale \in GenScaleArgs, length \in GenLengthArgs,
          voicing \in GenVoicingArgs, mode \in GenModeArgs, seed \in GenSeedArgs :
          gens = <<GenInit(key, scale, length, 0, voicing, mode, seed),
                   GenInit(key, scale, length, 0, voicing, mode, seed)>>
    /\ resume = [phase |-> "twin", at |-> 0]
    /\ genOp = NoGenOp
    /\ wc = NoChoice
    /\ CallIdle

TwinStep ==
    /\ \E i \in 1..2 : DoGenStep(i)
    /\ UNCHANGED <<regVars, resume, genOp, wc, callVars>>

NextTwin == TwinStep

SpecTwin == InitTwin /\ [][NextTwin]_vars

----------------------------------------------------------------------------
(* SpecResume: a generator is constructed with mutation 0.0 and stepped;   *)
(* at some point a second one is built from what get_state() returns, and  *)
(* both are stepped on.                                                    *)

InitResume ==
    /\ RegIdle
    /\ \E key \in GenKeyArgs, scale \in GenScaleArgs, length \in GenLengthArgs,
          voicing \in GenVoicingArgs, mode \in GenModeArgs, seed \in GenSeedArgs :
          gens = <<GenInit(key, scale, length, 0, voicing, mode, seed)>>
    /\ resume = [phase |-> "none", at |-> 0]
    /\ genOp = NoGenOp
    /\ wc = NoChoice
    /\ CallIdle

OriginalStep ==
    /\ DoGenStep(1)
    /\ UNCHANGED <<regVars, resume, genOp, wc, callVars>>

\* ProgressionGenerator(seed=state['register_state'], key=state['key'], ...)
Rebuild ==
    /\ resume.phase = "none"
    /\ LET state == GenGetState(gens[1])
       IN  gens' = <<gens[1],
                     GenInit(state.key, state.scale, state.length,
                             state.mutation, state.voicing, state.mode,
                             state.register_state)>>
    /\ resume' = [phase |-> "resumed", at |-> Len(gens[1].history)]
    /\ UNCHANGED <<regVars, genOp, wc, callVars>>

RebuiltStep ==
    /\ resume.phase = "resumed"
    /\ DoGenStep(2)
    /\ UNCHANGED <<regVars, resume, genOp, wc, callVars>>

NextResume == OriginalStep \/ Rebuild \/ RebuiltStep

SpecResume == InitResume /\ [][NextResume]_vars

----------------------------------------------------------------------------
(* SpecChoice: _weighted_choice is called on a row of the table, a         *)
(* candidate of the byte range and a scale size.                           *)

InitChoice ==
    /\ RegIdle
    /\ gens = <<>>
    /\ resume = [phase |-> "none", at |-> 0]
    /\ genOp = NoGenOp
    /\ \E row \in DOMAIN TRANSITION_WEIGHTS, v \in 0..255, n \in 5..8 :
          wc = [row |-> row, v |-> v, n |-> n, done |-> FALSE, ret |-> 0]
    /\ CallIdle

ApplyChoice ==
    /\ ~wc.done
    /\ wc' = [wc EXCEPT !.done = TRUE,
                        !.ret = weighted_choice(TRANSITION_WEIGHTS[wc.row],
                                                wc.v, wc.n)]
    /\ UNCHANGED <<regVars, gens, resume, genOp, callVars>>

NextChoice == ApplyChoice

SpecChoice == InitChoice /\ [][NextChoice]_vars

----------------------------------------------------------------------------
(* SpecChord: get_diatonic_chord is called on the notes of a scale of      *)
(* SCALES built on a key, a voicing name and an integer degree.            *)

InitChord ==
    /\ RegIdle
    /\ gens = <<>>
    /\ resume = [phase |-> "none", at |-> 0]
    /\ genOp = NoGenOp
    /\ wc = NoChoice
    /\ bias = NoBias
    /\ rh = NoRhythm
    /\ api = NoApi
    /\ \E scale \in DOMAIN SCALES, key \in ChordKeyArgs,
          voicing \in ChordVoicingArgs, degree \in ChordDegreeArgs :
          dc = [scale |-> scale, key |-> key, voicing |-> voicing,
                degree |-> degree, done |-> FALSE, raised |-> "none",
                ret |-> <<>>]

ApplyChord ==
    /\ ~dc.done
    /\ LET scale_notes == get_scale_notes(dc.key, dc.scale)
           error == get_diatonic_chord_error(dc.scale, dc.degree, dc.voicing,
                                             scale_notes, dc.key)
       IN  dc' = [dc EXCEPT
                    !.done = TRUE,
                    !.raised = error,
                    !.ret = IF error = "none"
                            THEN get_diatonic_chord(dc.scale, dc.degree,
                                                    dc.voicing, scale_notes,
                                                    dc.key)
                            ELSE <<>>]
    /\ UNCHANGED <<regVars, gens, resume, genOp, wc, bias, rh, api>>

NextChord == ApplyChord

SpecChord == InitChord /\ [][NextChord]_vars

----------------------------------------------------------------------------
(* SpecBias: the loop of test_smooth_mode_prefers_V_to_I.  Trial i builds  *)
(* a smooth-mode generator with seed 7 * i, length 8 and mutation 1.0,     *)
(* sets its last_degree to 4, steps it once and counts the step if the     *)
(* chord's root is scale_notes[0].  After the trials the same count is     *)
(* taken over the 256 bytes a register step can return.                    *)

\* trials = 200
Trials == 200

\* the generator of a trial after `gen.last_degree = 4`
TrialGen(key, scale, seed) ==
    [GenInit(key, scale, 8, ProbScale, "sevenths", "smooth", seed)
        EXCEPT !.last_degree = 4]

InitBias ==
    /\ RegIdle
    /\ gens = <<>>
    /\ resume = [phase |-> "none", at |-> 0]
    /\ genOp = NoGenOp
    /\ wc = NoChoice
    /\ dc = NoChord
    /\ rh = NoRhythm
    /\ api = NoApi
    /\ \E key \in {"C", "Bb"}, scale \in {"ionian", "dorian", "harmonic_minor"} :
          bias = [key |-> key, scale |-> scale, i |-> 0, resolved |-> 0,
                  b |-> 0, byte_hits |-> 0]

SeedTrial ==
    /\ bias.i < Trials
    /\ \E r \in RandomFloats :
          LET gen   == TrialGen(bias.key, bias.scale, bias.i * 7)
              chord == StepReturn(GenStep(gen, r))
          IN  bias' = [bias EXCEPT
                         !.i = @ + 1,
                         !.resolved = IF chord.root = gen.scale_notes[1]
                                      THEN @ + 1 ELSE @]
    /\ UNCHANGED <<regVars, gens, resume, genOp, wc, dc, rh, api>>

ByteTrial ==
    /\ bias.i = Trials
    /\ bias.b < 256
    /\ LET gen == TrialGen(bias.key, bias.scale, 0)
       IN  bias' = [bias EXCEPT
                      !.b = @ + 1,
                      !.byte_hits = IF ChooseDegree(gen, bias.b) = 0
                                    THEN @ + 1 ELSE @]
    /\ UNCHANGED <<regVars, gens, resume, genOp, wc, dc, rh, api>>

NextBias == SeedTrial \/ ByteTrial

SpecBias == InitBias /\ [][NextBias]_vars

----------------------------------------------------------------------------
(* SpecRhythm: a rhythm function is called on a pattern and a meter.       *)

InitRhythm ==
    /\ RegIdle
    /\ gens = <<>>
    /\ resume = [phase |-> "none", at |-> 0]
    /\ genOp = NoGenOp
    /\ wc = NoChoice
    /\ dc = NoChord
    /\ bias = NoBias
    /\ api = NoApi
    /\ \/ \E len \in 0..MaxPatternLen :
             \E pattern \in [1..len -> PatternEntryArgs], beats \in BeatsArgs :
                 rh = [fn |-> "expand_pattern", pattern |-> pattern,
                       beats |-> beats, done |-> FALSE, raised |-> "none",
                       ret |-> <<>>, simple |-> FALSE, bars |-> 0,
                       chords |-> 0]
       \/ \E bars \in SimpleArgs, chords \in SimpleArgs, beats \in BeatsArgs :
             rh = [fn |-> "simple_to_pattern", pattern |-> <<>>,
                   beats |-> beats, done |-> FALSE, raised |-> "none",
                   ret |-> <<>>, simple |-> TRUE, bars |-> bars,
                   chords |-> chords]

\* simple_to_pattern(bars, chords); the pattern it returns is then expanded
ApplySimple ==
    /\ rh.fn = "simple_to_pattern"
    /\ ~rh.done
    /\ LET res == simple_to_pattern(rh.bars, rh.chords)
       IN  rh' = IF res.raised = "none"
                 THEN [rh EXCEPT !.fn = "expand_pattern", !.pattern = res.ret]
                 ELSE [rh EXCEPT !.done = TRUE, !.raised = res.raised]
    /\ UNCHANGED <<regVars, gens, resume, genOp, wc, dc, bias, api>>

ApplyExpand ==
    /\ rh.fn = "expand_pattern"
    /\ ~rh.done
    /\ LET res == expand_pattern(rh.pattern, rh.beats)
       IN  rh' = [rh EXCEPT !.done = TRUE, !.raised = res.raised,
                           !.ret = res.ret]
    /\ UNCHANGED <<regVars, gens, resume, genOp, wc, dc, bias, api>>

NextRhythm == ApplyExpand \/ ApplySimple

SpecRhythm == InitRhythm /\ [][NextRhythm]_vars

----------------------------------------------------------------------------
(* SpecApi: the API handles requests one after the other.  The module is   *)
(* loaded with generator = None; gens is the heap of generators built so   *)
(* far and api.global the index of the one the global names.  api.last     *)
(* records the last request: its endpoint and parameters, the global and   *)
(* the generator before it, the status and the body of the response.       *)

\* what random.getrandbits(16) returns when a request builds the default
\* generator; no draw is made when the global generator exists
ApiSeedDraws == IF api.global = 0 THEN {\h5A3C, \hFFFF} ELSE {0}

InitApi ==
    /\ RegIdle
    /\ gens = <<>>
    /\ resume = [phase |-> "none", at |-> 0]
    /\ genOp = NoGenOp
    /\ wc = NoChoice
    /\ dc = NoChord
    /\ bias = NoBias
    /\ rh = NoRhythm
    /\ api = [global |-> 0, seq |-> 0, last |-> [endpoint |-> "none"]]

\* GET /progression
ApiProgression ==
    /\ api.seq < MaxApiRequests
    /\ \E key \in ProgressionKeyArgs, scale \in ProgressionScaleArgs,
          mode \in GenModeArgs, seed \in {66}, count \in {0, 2} :
          LET params == [key |-> key, scale |-> scale, length |-> 3,
                         mutation |-> 0, voicing |-> "sevenths", mode |-> mode,
                         seed |-> seed, count |-> count]
              c   == GenConstruct(key, scale, 3, 0, "sevenths", mode, seed)
              ok  == c.raised = "none"
              e   == ensure_generator(gens, api.global, c.g)
              res == GenGenerate(e.heap[e.global], [i \in 1..count |-> 0])
          IN  /\ gens' = IF ok THEN [e.heap EXCEPT ![e.global] = res.g]
                         ELSE gens
              /\ api' = [global |-> IF ok THEN e.global ELSE api.global,
                         seq    |-> api.seq + 1,
                         last   |-> [endpoint   |-> "progression",
                                     params     |-> params,
                                     pre_global |-> api.global,
                                     pre_heap   |-> gens,
                                     status     |-> IF ok THEN 200 ELSE 500,
                                     body       |->
                                        IF ok
                                        THEN [chords |-> res.ret,
                                              register_state |->
                                                 GenGetState(res.g).register_state,
                                              seed |-> seed,
                                              settings |-> GenGetState(res.g)]
                                        ELSE <<>>]]
    /\ UNCHANGED <<regVars, resume, genOp, wc, dc, bias, rh>>

\* GET /step
ApiStepOne ==
    /\ api.seq < MaxApiRequests
    /\ \E seed \in ApiSeedDraws, r \in GenDraws :
          LET heap == IF api.global = 0 THEN Append(gens, DefaultGen(seed))
                      ELSE gens
              idx  == IF api.global = 0 THEN Len(heap) ELSE api.global
              g1   == GenStep(heap[idx], r)
          IN  /\ gens' = [heap EXCEPT ![idx] = g1]
              /\ api' = [global |-> idx,
                         seq    |-> api.seq + 1,
                         last   |-> [endpoint   |-> "step",
                                     params     |-> <<>>,
                                     pre_global |-> api.global,
                                     pre_heap   |-> gens,
                                     status     |-> 200,
                                     body       |->
                                        [chord |-> StepReturn(g1),
                                         state |-> GenGetState(g1)]]]
    /\ UNCHANGED <<regVars, resume, genOp, wc, dc, bias, rh>>

\* POST /configure
ApiConfigure ==
    /\ api.seq < MaxApiRequests
    /\ \E given \in SUBSET ParamNames :
       \E key \in (IF "key" \in given THEN ConfigureKeyArgs ELSE {"Bb"}),
          seed \in ApiSeedDraws :
          LET params == [given |-> given, key |-> key,
                         scale |-> "minor_pentatonic", length |-> 5,
                         mutation |-> ProbScale, voicing |-> "triads",
                         mode |-> "smooth"]
              heap == IF api.global = 0 THEN Append(gens, DefaultGen(seed))
                      ELSE gens
              idx  == IF api.global = 0 THEN Len(heap) ELSE api.global
              res  == ConfigureApply(heap[idx], params)
              ok   == res.raised = "none"
          IN  /\ gens' = [heap EXCEPT ![idx] = res.g]
              /\ api' = [global |-> idx,
                         seq    |-> api.seq + 1,
                         last   |-> [endpoint   |-> "configure",
                                     params     |-> params,
                                     pre_global |-> api.global,
                                     pre_heap   |-> gens,
                                     status     |-> IF ok THEN 200 ELSE 500,
                                     body       |->
                                        IF ok
                                        THEN [status |-> "ok",
                                              state  |-> GenGetState(res.g)]
                                        ELSE <<>>]]
    /\ UNCHANGED <<regVars, resume, genOp, wc, dc, bias, rh>>

NextApi == ApiProgression \/ ApiStepOne \/ ApiConfigure

SpecApi == InitApi /\ [][NextApi]_vars

----------------------------------------------------------------------------
(* SpecApiRace: GET /step requests handled by the threads of the pool.     *)
(* api.pc is where each thread is in step_one(), api.self the generator    *)
(* its call of step() is bound to, api.loop_bits and api.raw the locals of *)
(* that call.  api.seeds records the seed each generator of the heap was   *)
(* built with, api.started and api.completed count the requests.           *)

Clients == 1..NumClients

InitRace ==
    /\ RegIdle
    /\ gens = <<>>
    /\ resume = [phase |-> "none", at |-> 0]
    /\ genOp = NoGenOp
    /\ wc = NoChoice
    /\ dc = NoChord
    /\ bias = NoBias
    /\ rh = NoRhythm
    /\ api = [global    |-> 0,
              pc        |-> [c \in Clients |-> "idle"],
              self      |-> [c \in Clients |-> 0],
              loop_bits |-> [c \in Clients |-> 0],
              raw       |-> [c \in Clients |-> 0],
              seeds     |-> <<>>,
              started   |-> 0,
              completed |-> 0]

RaceUnchanged == UNCHANGED <<regVars, resume, genOp, wc, dc, bias, rh>>

\* a thread takes a request
RaceCall(c) ==
    /\ api.pc[c] = "idle"
    /\ api.started < MaxRaceRequests
    /\ api' = [api EXCEPT !.pc[c] = "check", !.started = @ + 1]
    /\ UNCHANGED gens
    /\ RaceUnchanged

\* if generator is None
RaceCheck(c) ==
    /\ api.pc[c] = "check"
    /\ api' = [api EXCEPT !.pc[c] = IF api.global = 0 THEN "create" ELSE "load"]
    /\ UNCHANGED gens
    /\ RaceUnchanged

\* generator = ProgressionGenerator()
RaceCreate(c) ==
    /\ api.pc[c] = "create"
    /\ \E seed \in {\h5A3C, \hFFFF} :
          /\ gens' = Append(gens, DefaultGen(seed))
          /\ api' = [api EXCEPT !.pc[c] = "load",
                                !.global = Len(gens) + 1,
                                !.seeds = Append(@, seed)]
    /\ RaceUnchanged

\* generator.step(): the global is read and the call bound to its object
RaceLoad(c) ==
    /\ api.pc[c] = "load"
    /\ api' = [api EXCEPT !.pc[c] = "read", !.self[c] = api.global]
    /\ UNCHANGED gens
    /\ RaceUnchanged

\* turing.step() reads the register
RaceRead(c) ==
    /\ api.pc[c] = "read"
    /\ \E r \in GenDraws :
          api' = [api EXCEPT !.pc[c] = "write",
                             !.loop_bits[c] =
                                TuringStepRead(gens[api.self[c]].turing, r)]
    /\ UNCHANGED gens
    /\ RaceUnchanged

\* turing.step() writes the register and returns its low byte
RaceWrite(c) ==
    /\ api.pc[c] = "write"
    /\ LET t == TuringStepWrite(gens[api.self[c]].turing, api.loop_bits[c])
       IN  /\ gens' = [gens EXCEPT ![api.self[c]].turing = t]
           /\ api' = [api EXCEPT !.pc[c] = "finish", !.raw[c] = StepOutput(t)]
    /\ RaceUnchanged

\* the rest of generator.step() and the response
RaceFinish(c) ==
    /\ api.pc[c] = "finish"
    /\ gens' = [gens EXCEPT ![api.self[c]] = GenStepAfter(@, api.raw[c])]
    /\ api' = [api EXCEPT !.pc[c] = "idle", !.completed = @ + 1]
    /\ RaceUnchanged

RaceCalls    == \E c \in Clients : RaceCall(c)
RaceChecks   == \E c \in Clients : RaceCheck(c)
RaceCreates  == \E c \in Clients : RaceCreate(c)
RaceLoads    == \E c \in Clients : RaceLoad(c)
RaceReads    == \E c \in Clients : RaceRead(c)
RaceWrites   == \E c \in Clients : RaceWrite(c)
RaceFinishes == \E c \in Clients : RaceFinish(c)

NextRace ==
    \/ RaceCalls
    \/ RaceChecks
    \/ RaceCreates
    \/ RaceLoads
    \/ RaceReads
    \/ RaceWrites
    \/ RaceFinishes

SpecApiRace == InitRace /\ [][NextRace]_vars

----------------------------------------------------------------------------
(* SpecGen: one generator is constructed and then used through its public  *)
(* methods.  genOp records the last call: its arguments, the values         *)
(* random.random() returned during it, the exception that left it, what it  *)
(* returned and the generator it was made on.                               *)

GenCall(name, sarg, narg, draws, raised, ret) ==
    [name |-> name, sarg |-> sarg, narg |-> narg, draws |-> draws,
     raised |-> raised, ret |-> ret, pre |-> gens[1], seq |-> genOp.seq + 1,
     steps |-> genOp.steps + (IF name = "step" THEN 1
                              ELSE IF name = "generate" THEN narg ELSE 0)]

InitGen ==
    /\ RegIdle
    /\ resume = [phase |-> "none", at |-> 0]
    /\ wc = NoChoice
    /\ CallIdle
    /\ \E key \in CtorKeyArgs, scale \in CtorScaleArgs, mode \in GenModeArgs,
          mutation \in CtorMutationArgs, seed \in CtorSeedArgs :
          LET c == GenConstruct(key, scale, 3, mutation, "sevenths", mode, seed)
          IN  /\ gens = IF c.raised = "none" THEN <<c.g>> ELSE <<>>
              /\ genOp = [name |-> "init", sarg |-> key, narg |-> seed,
                          draws |-> <<>>, raised |-> c.raised, ret |-> <<>>,
                          pre |-> c.g, seq |-> 0, steps |-> 0]

GenCallable == Len(gens) = 1 /\ genOp.seq < MaxGenOps

GenOpStep ==
    /\ GenCallable
    /\ \E r \in GenDraws :
          LET g1  == GenStep(gens[1], r)
              err == GenStepError(gens[1], r)
          IN  IF err = "none"
              THEN /\ gens' = <<g1>>
                   /\ genOp' = GenCall("step", "", 0, <<r>>, "none",
                                       StepReturn(g1))
              ELSE /\ gens' = <<[gens[1] EXCEPT !.turing = TuringStep(@, r)]>>
                   /\ genOp' = GenCall("step", "", 0, <<r>>, err, <<>>)
    /\ UNCHANGED <<regVars, resume, wc, callVars>>

GenOpGenerate ==
    /\ GenCallable
    /\ \E count \in CountArgs :
          \E rs \in [1..count -> GenDraws] :
              LET res == GenGenerate(gens[1], rs)
              IN  /\ gens' = <<res.g>>
                  /\ genOp' = GenCall("generate", "", count, rs, "none",
                                      res.ret)
    /\ UNCHANGED <<regVars, resume, wc, callVars>>

GenOpSetKey ==
    /\ GenCallable
    /\ \E key \in SetKeyArgs :
          LET res == GenSetKey(gens[1], key)
          IN  /\ gens' = <<res.g>>
              /\ genOp' = GenCall("set_key", key, 0, <<>>, res.raised, <<>>)
    /\ UNCHANGED <<regVars, resume, wc, callVars>>

GenOpSetScale ==
    /\ GenCallable
    /\ \E scale \in SetScaleArgs :
          LET res == GenSetScale(gens[1], scale)
          IN  /\ gens' = <<res.g>>
              /\ genOp' = GenCall("set_scale", scale, 0, <<>>, res.raised, <<>>)
    /\ UNCHANGED <<regVars, resume, wc, callVars>>

GenOpSetVoicing ==
    /\ GenCallable
    /\ \E voicing \in SetVoicingArgs :
          /\ gens' = <<GenSetVoicing(gens[1], voicing)>>
          /\ genOp' = GenCall("set_voicing", voicing, 0, <<>>, "none", <<>>)
    /\ UNCHANGED <<regVars, resume, wc, callVars>>

GenOpSetMode ==
    /\ GenCallable
    /\ \E mode \in GenModeArgs :
          /\ gens' = <<GenSetMode(gens[1], mode)>>
          /\ genOp' = GenCall("set_mode", mode, 0, <<>>, "none", <<>>)
    /\ UNCHANGED <<regVars, resume, wc, callVars>>

GenOpSetMutation ==
    /\ GenCallable
    /\ \E mutation \in SetMutationArgs :
          /\ gens' = <<GenSetMutation(gens[1], mutation)>>
          /\ genOp' = GenCall("set_mutation", "", mutation, <<>>, "none", <<>>)
    /\ UNCHANGED <<regVars, resume, wc, callVars>>

GenOpSetLength ==
    /\ GenCallable
    /\ \E length \in SetLengthArgs :
          /\ gens' = <<GenSetLength(gens[1], length)>>
          /\ genOp' = GenCall("set_length", "", length, <<>>, "none", <<>>)
    /\ UNCHANGED <<regVars, resume, wc, callVars>>

NextGen ==
    \/ GenOpStep
    \/ GenOpGenerate
    \/ GenOpSetKey
    \/ GenOpSetScale
    \/ GenOpSetVoicing
    \/ GenOpSetMode
    \/ GenOpSetMutation
    \/ GenOpSetLength

SpecGen == InitGen /\ [][NextGen]_vars

----------------------------------------------------------------------------
(* SpecSwitch: one generator is constructed in either mode, on scales of   *)
(* 5 to 8 notes, and stepped; set_mode is called at most once, at any      *)
(* point, to switch to the other mode.                                     *)

InitSwitch ==
    /\ RegIdle
    /\ wc = NoChoice
    /\ CallIdle
    /\ resume = [phase |-> "unswitched", at |-> 0]
    /\ \E scale \in GenScaleArgs, length \in GenLengthArgs, mode \in GenModeArgs,
          mutation \in CtorMutationArgs, seed \in SwitchSeedArgs :
          LET g == GenInit("C", scale, length, mutation, "sevenths", mode, seed)
          IN  /\ gens = <<g>>
              /\ genOp = [name |-> "init", sarg |-> "C", narg |-> seed,
                          draws |-> <<>>, raised |-> "none", ret |-> <<>>,
                          pre |-> g, seq |-> 0, steps |-> 0]

SwitchStep ==
    /\ genOp.steps < MaxSwitchSteps
    /\ \E r \in GenDraws :
          LET g1 == GenStep(gens[1], r)
          IN  /\ gens' = <<g1>>
              /\ genOp' = GenCall("step", "", 0, <<r>>, "none", StepReturn(g1))
    /\ UNCHANGED <<regVars, resume, wc, callVars>>

SwitchMode ==
    /\ resume.phase = "unswitched"
    /\ LET mode == IF gens[1].mode = "raw" THEN "smooth" ELSE "raw"
       IN  /\ gens' = <<GenSetMode(gens[1], mode)>>
           /\ genOp' = GenCall("set_mode", mode, 0, <<>>, "none", <<>>)
    /\ resume' = [phase |-> "switched", at |-> genOp.steps]
    /\ UNCHANGED <<regVars, wc, callVars>>

NextSwitch == SwitchStep \/ SwitchMode

SpecSwitch == InitSwitch /\ [][NextSwitch]_vars

----------------------------------------------------------------------------
(* SpecGenLocked: one generator is constructed with mutation 0.0 and only  *)
(* stepped; no setter is called.                                           *)

InitGenLocked ==
    /\ RegIdle
    /\ \E key \in GenKeyArgs, scale \in GenScaleArgs,
          length \in GenLockedLengthArgs, voicing \in {"triads", "sevenths"},
          mode \in GenModeArgs, seed \in GenSeedArgs :
          gens = <<GenInit(key, scale, length, 0, voicing, mode, seed)>>
    /\ resume = [phase |-> "none", at |-> 0]
    /\ genOp = NoGenOp
    /\ wc = NoChoice
    /\ CallIdle

GenLockedStep ==
    /\ Len(gens[1].history) < MaxGenLockedSteps
    /\ \E r \in RandomFloats : gens' = <<GenStep(gens[1], r)>>
    /\ UNCHANGED <<regVars, resume, genOp, wc, callVars>>

NextGenLocked == GenLockedStep

SpecGenLocked == InitGenLocked /\ [][NextGenLocked]_vars

----------------------------------------------------------------------------
(* Claims                                                                  *)

Clamp(x, lo, hi) == IF x < lo THEN lo ELSE IF x > hi THEN hi ELSE x

\* C1: with the probability at 0 and loop length L, the outputs of a
\* constructed register repeat with period L: the output of step n+L is the
\* output of step n, for every n >= 1 (SpecLocked).
C1_LockedPeriod ==
    \A n \in 1..(Len(outs) - turing.length) :
        outs[n + turing.length] = outs[n]

\* two full loops of the longest length, on a sequence that is not constant
C1_Witness ==
    /\ turing.length = 16
    /\ Len(outs) >= 32
    /\ \E i, j \in 1..Len(outs) : outs[i] # outs[j]

\* C2: two generators constructed with identical seed, length, probability 0,
\* key, scale, voicing and mode produce identical chord-symbol sequences: after
\* N step() calls on each, the first N symbols agree, for every N (SpecTwin).
C2_TwinsAgree ==
    resume.phase = "twin" =>
        \A n \in 1..Min(Len(gens[1].history), Len(gens[2].history)) :
            gens[1].history[n].symbol = gens[2].history[n].symbol

\* both generators have run to the bound, in smooth mode, over a progression
\* that changes chord and in which the bias has moved a degree
C2_Witness ==
    /\ resume.phase = "twin"
    /\ Len(gens[1].history) = MaxGenSteps
    /\ Len(gens[2].history) = MaxGenSteps
    /\ gens[1].mode = "smooth"
    /\ \E n, m \in 1..MaxGenSteps :
          /\ gens[1].history[n].symbol # gens[1].history[m].symbol
          /\ gens[2].history[n].mutated

\* C3: a generator rebuilt from get_state() (seed = register_state, same key,
\* scale, voicing, mode, length, mutation) emits from then on exactly the chord
\* records the original emits, in raw and in smooth mode (SpecResume; refuted in
\* smooth mode, where get_state() leaves out last_degree).
C3_ResumeFromGetState ==
    resume.phase = "resumed" =>
        \A n \in 1..Min(Len(gens[1].history) - resume.at, Len(gens[2].history)) :
            gens[2].history[n] = gens[1].history[resume.at + n]

\* C4: in every reachable state of a register the value is in [0, 65535] and
\* the loop length in [2, 16] (SpecReg; refuted by the constructor).
C4_RegisterInRange ==
    /\ turing.register \in 0..65535
    /\ turing.length \in 2..16

\* C5: Register(seed=s, length=n) has get_state() = s & 0xFFFF,
\* length = clamp(n, 2, 16) and probability 0.0 (SpecReg; refuted for s
\* outside 0..65535).
C5_ConstructMasks ==
    lastOp.name = "init" =>
        /\ GetState(turing) = lastOp.arg % 65536
        /\ turing.length = Clamp(lastOp.larg, 2, 16)
        /\ turing.probability = 0

\* C6: set_state(v) leaves the register value in [0, 65535], equal to v modulo
\* 65536, and changes neither the loop length nor the probability (SpecReg).
C6_SetStateMasks ==
    lastOp.name = "set_state" =>
        /\ turing.register \in 0..65535
        /\ \E k \in -4..4 : lastOp.arg = turing.register + k * 65536
        /\ turing.length = lastOp.pre.length
        /\ turing.probability = lastOp.pre.probability

\* set_state was called with a value above 16 bits, and with a negative one
C6_Witness ==
    /\ lastOp.name = "set_state"
    /\ lastOp.arg >= 65536
    /\ turing.register = 65535
    /\ lastOp.pre.probability > 0
    /\ lastOp.pre.length = 5

\* C7: set_state(get_state()) leaves the register value unchanged, in any
\* reachable state and also right after construction; and at probability 0 the
\* outputs after restoring a saved state equal the outputs that followed the
\* save (SpecSave; the first half is refuted right after construction).
C7_SaveRestoreRoundTrip ==
    /\ (saved.phase = "restored" /\ lastOp.name = "set_state"
            /\ saved.after = <<>>)
          => turing.register = lastOp.pre.register
    /\ saved.phase = "restored" =>
          \A i \in 1..Min(Len(saved.after), Len(saved.again)) :
              saved.again[i] = saved.after[i]

\* C8: at probability 0, step() on a 16-bit register value replaces the low L
\* bits by their rotation right by one (old bit 0 re-enters at bit L-1) and
\* returns the low 8 bits of the new value; 0xA5C3 with L = 8 steps to 0xA5E1
\* (output 0xE1) and then to 0xA5F0 (output 0xF0) (SpecReg).
C8_LockedStepRotates ==
    (lastOp.name = "step" /\ lastOp.pre.probability = 0
        /\ lastOp.pre.register \in 0..65535) =>
        LET L   == lastOp.pre.length
            old == lastOp.pre.register
            new == turing.register
        IN  /\ \A i \in 0..(L - 2) : Bit(new, i) = Bit(old, i + 1)
            /\ Bit(new, L - 1) = Bit(old, 0)
            /\ new \in 0..65535
            /\ lastOp.ret = new % 256
            /\ (old = \hA5C3 /\ L = 8) => (new = \hA5E1 /\ lastOp.ret = \hE1)
            /\ (old = \hA5E1 /\ L = 8) => (new = \hA5F0 /\ lastOp.ret = \hF0)

\* the second step of Register(seed=0xA5C3, length=8)
C8_Witness ==
    /\ lastOp.name = "step"
    /\ lastOp.pre = [register |-> \hA5E1, length |-> 8, probability |-> 0]
    /\ outs = <<\hE1, \hF0>>
    /\ turing.register = \hA5F0

\* C9: with probability 0 and any loop length, a register holding 0x0000 is
\* 0x0000 after a step, which returns 0, and a register holding 0xFFFF is
\* 0xFFFF after a step, which returns 0xFF: both stay so forever (SpecLocked).
C9_FixedPoints ==
    (lastOp.name = "step" /\ lastOp.pre.probability = 0) =>
        /\ lastOp.pre.register = 0 =>
              (turing.register = 0 /\ lastOp.ret = 0
                  /\ \A i \in 1..Len(outs) : outs[i] = 0)
        /\ lastOp.pre.register = \hFFFF =>
              (turing.register = \hFFFF /\ lastOp.ret = \hFF
                  /\ \A i \in 1..Len(outs) : outs[i] = \hFF)

\* a register of all ones, loop length 7, still all ones after 33 steps
C9_Witness ==
    /\ lastOp.name = "step"
    /\ lastOp.pre.register = \hFFFF
    /\ turing.length = 7
    /\ Len(outs) = MaxLockedSteps

\* C10: for any probability and loop length L, step() on a 16-bit register
\* value leaves bits L..15 unchanged; only bits 0..L-1 can change (SpecReg).
C10_UpperBitsPreserved ==
    (lastOp.name = "step" /\ lastOp.pre.register \in 0..65535) =>
        \A i \in lastOp.pre.length..15 :
            Bit(turing.register, i) = Bit(lastOp.pre.register, i)

\* a flipping step of a 3-bit loop below set upper bits
C10_Witness ==
    /\ lastOp.name = "step"
    /\ lastOp.pre.probability = ProbScale
    /\ lastOp.pre.length = 3
    /\ lastOp.pre.register = \hA5C3
    /\ turing.register = \hA5C1

\* C11: get_scale_degree(n) returns (register & 0xFF) % n, a value in
\* [0, n-1]; it changes neither the register value nor the length nor the
\* probability, so a repeated call without a step in between returns the same
\* value: the value is the one the unchanged register determines (SpecReg).
C11_ScaleDegreeIsPure ==
    lastOp.name = "get_scale_degree" =>
        /\ lastOp.ret \in 0..(lastOp.arg - 1)
        /\ \E q \in 0..255 :
              /\ q = lastOp.pre.register % 256
              /\ lastOp.ret = q - lastOp.arg * (q \div lastOp.arg)
        /\ turing = lastOp.pre
        /\ lastOp.ret = (turing.register % 256) % lastOp.arg

\* get_scale_degree(7) on a register whose bits above the low byte are set
C11_Witness ==
    /\ lastOp.name = "get_scale_degree"
    /\ lastOp.arg = 7
    /\ turing.register = \hA5E1
    /\ lastOp.ret = 1

\* C12: set_probability(p) stores clamp(p, 0, 1) and set_length(n) stores
\* clamp(n, 2, 16), for arguments below, in and above the range; neither
\* changes the register value or the other setting, and the step that follows
\* runs with the stored setting: it re-inserts old bit 0 (probability 0) or its
\* complement (probability 1) at bit length-1 (SpecReg).
C12_SettersClamp ==
    /\ lastOp.name = "set_probability" =>
          /\ turing.probability = Clamp(lastOp.arg, 0, ProbScale)
          /\ turing.register = lastOp.pre.register
          /\ turing.length = lastOp.pre.length
    /\ lastOp.name = "set_length" =>
          /\ turing.length = Clamp(lastOp.larg, 2, 16)
          /\ turing.register = lastOp.pre.register
          /\ turing.probability = lastOp.pre.probability
    /\ (lastOp.name = "step" /\ lastOp.pre.probability = 0) =>
          Bit(turing.register, lastOp.pre.length - 1) = Bit(lastOp.pre.register, 0)
    /\ (lastOp.name = "step" /\ lastOp.pre.probability = ProbScale) =>
          Bit(turing.register, lastOp.pre.length - 1)
              = 1 - Bit(lastOp.pre.register, 0)

\* set_probability above the range, on a register that has been stepped
C12_Witness ==
    /\ lastOp.name = "set_probability"
    /\ lastOp.arg > ProbScale
    /\ turing.probability = ProbScale
    /\ lastOp.pre.probability = 0
    /\ Len(outs) > 0
    /\ turing.register = \hA5E1

\* the byte the register returned in the last step of gens[1]
RawByte == gens[1].turing.register % 256

\* the last call was a step() in smooth mode on a last_degree the table has
SmoothStep ==
    /\ genOp.name = "step"
    /\ genOp.pre.mode = "smooth"
    /\ genOp.pre.last_degree \in DOMAIN TRANSITION_WEIGHTS

\* C13, as stated: in smooth mode, when last_degree has a row in the table,
\* step() chooses weighted_choice(W[last_degree], raw_byte, num_degrees), the
\* entropy argument being the raw register byte 0..255 (SpecGen).
C13_EntropyIsRawByte ==
    SmoothStep =>
        gens[1].last_degree
            = weighted_choice(TRANSITION_WEIGHTS[genOp.pre.last_degree],
                              RawByte, genOp.pre.num_degrees)

\* C13, amended: in smooth mode, when last_degree has a row in the table,
\* step() chooses weighted_choice(W[last_degree], raw_degree, num_degrees),
\* the entropy argument being raw_degree = raw_byte % num_degrees, so that
\* point = (raw_degree / num_degrees) * total_weight (SpecGen).
C13_EntropyIsRawDegree ==
    SmoothStep =>
        gens[1].last_degree
            = weighted_choice(TRANSITION_WEIGHTS[genOp.pre.last_degree],
                              RawByte % genOp.pre.num_degrees,
                              genOp.pre.num_degrees)

\* a smooth step from a last_degree other than 0 on a byte that is no degree
C13_Witness ==
    /\ SmoothStep
    /\ genOp.pre.last_degree # 0
    /\ RawByte >= genOp.pre.num_degrees
    /\ gens[1].last_degree
          # weighted_choice(TRANSITION_WEIGHTS[genOp.pre.last_degree],
                            RawByte, genOp.pre.num_degrees)

\* the doubled weights of the first i targets of a row
RECURSIVE CumWeight(_, _)
CumWeight(weights, i) ==
    IF i = 0 THEN 0 ELSE weights[i][2] + CumWeight(weights, i - 1)

\* the cumulative weight of the first i targets strictly exceeds
\* point = (v / n) * total
ExceedsPoint(weights, i, v, n) ==
    v * CumWeight(weights, Len(weights)) < CumWeight(weights, i) * n

\* C14: weighted_choice(weights, v, n) returns the first target, in insertion
\* order, whose cumulative weight strictly exceeds point = (v / n) * total, and
\* the last target when none does; for every row of the table, every v in
\* 0..255 and every n in 5..8 it returns a key of that row (SpecChoice).
C14_FirstExceeding ==
    wc.done =>
        LET w == TRANSITION_WEIGHTS[wc.row]
            hits == {i \in 1..Len(w) : ExceedsPoint(w, i, wc.v, wc.n)}
        IN  /\ \E i \in 1..Len(w) : w[i][1] = wc.ret
            /\ hits # {} =>
                  \E i \in hits : /\ \A j \in hits : i <= j
                                  /\ wc.ret = w[i][1]
            /\ hits = {} => wc.ret = w[Len(w)][1]

\* the point equals a cumulative weight (row 4, v = 4, n = 7: point 4 = the
\* weight of the first target), and the second target is returned
C14_Witness ==
    /\ wc.done
    /\ wc.row = 4 /\ wc.v = 4 /\ wc.n = 7
    /\ wc.ret = 5

\* the register after the first k of the steps that drew rs
RECURSIVE RegisterAfter(_, _, _)
RegisterAfter(t, rs, k) ==
    IF k = 0 THEN t ELSE TuringStep(RegisterAfter(t, rs, k - 1), rs[k])

\* C15: every record step() returns carries register_value equal to the byte
\* that step's register.step() returned, the low 8 bits of the register after
\* the step, and mutated equal to (raw_byte % num_degrees # degree chosen);
\* so does each record of a generate() for its own step (SpecGen).
C15_RecordAnnotations ==
    /\ genOp.name = "step" =>
          /\ genOp.ret.register_value = RawByte
          /\ genOp.ret.register_value
                = RegisterAfter(genOp.pre.turing, genOp.draws, 1).register % 256
          /\ genOp.ret.mutated
                = (RawByte % genOp.pre.num_degrees # gens[1].last_degree)
    /\ genOp.name = "generate" =>
          \A k \in 1..Len(genOp.ret) :
              genOp.ret[k].register_value
                  = RegisterAfter(genOp.pre.turing, genOp.draws, k).register
                        % 256

\* a smooth step whose chosen degree differs from the raw degree, on a byte
\* that differs from the byte before the step
C15_Witness ==
    /\ genOp.name = "step"
    /\ genOp.ret.mutated
    /\ genOp.ret.register_value # genOp.pre.turing.register % 256
    /\ genOp.ret.register_value >= 8

\* C16: in raw mode, with probability 0 and loop length L and no setter
\* called, the chord symbols of successive steps repeat with period L: the
\* symbol of step n+L is the symbol of step n (SpecGenLocked).
C16_SymbolsRepeat ==
    gens[1].mode = "raw" =>
        \A n \in 1..(Len(gens[1].history) - gens[1].turing.length) :
            gens[1].history[n + gens[1].turing.length].symbol
                = gens[1].history[n].symbol

\* two loops of length 8 in raw mode whose symbols are not all the same
C16_Witness ==
    /\ gens[1].mode = "raw"
    /\ gens[1].turing.length = 8
    /\ Len(gens[1].history) = 16
    /\ gens[1].history[1].symbol # gens[1].history[2].symbol
    /\ gens[1].history[16].symbol = gens[1].history[8].symbol

\* the generator after k successive step() calls that drew rs[1..k]
RECURSIVE SuccessiveSteps(_, _, _)
SuccessiveSteps(g, rs, k) ==
    IF k = 0 THEN g ELSE GenStep(SuccessiveSteps(g, rs, k - 1), rs[k])

\* C17: generate(count) returns a list of exactly count records, equal in
\* order to what count successive step() calls return; it advances the
\* register by count steps and appends exactly those records, in order, to
\* the history (SpecGen).
C17_GenerateIsSteps ==
    genOp.name = "generate" =>
        /\ Len(genOp.ret) = genOp.narg
        /\ \A k \in 1..genOp.narg :
              genOp.ret[k]
                  = StepReturn(SuccessiveSteps(genOp.pre, genOp.draws, k))
        /\ gens[1].turing
              = RegisterAfter(genOp.pre.turing, genOp.draws, genOp.narg)
        /\ gens[1].history = genOp.pre.history \o genOp.ret
        /\ gens[1] = SuccessiveSteps(genOp.pre, genOp.draws, genOp.narg)

\* generate(3) after an earlier call that stepped, with a flip in the middle
\* step only, returning three different chords
C17_Witness ==
    /\ genOp.name = "generate"
    /\ genOp.narg = 3
    /\ genOp.pre.history # <<>>
    /\ genOp.draws = <<ProbScale - 1, 0, ProbScale - 1>>
    /\ genOp.pre.turing.probability = ProbScale \div 2
    /\ genOp.ret[1].symbol # genOp.ret[2].symbol
    /\ genOp.ret[2].symbol # genOp.ret[3].symbol
    /\ genOp.ret[1].symbol # genOp.ret[3].symbol

\* the last call was one of the six configuration setters
SetterCalled ==
    genOp.name \in {"set_key", "set_scale", "set_voicing", "set_mode",
                    "set_mutation", "set_length"}

\* C18: each configuration setter that returns updates exactly its named
\* parameter; set_key and set_scale also recompute scale_notes and num_degrees
\* from the new key or scale in the same call; and no setter call changes the
\* register value, last_degree or history (SpecGen).
C18_SetterFrame ==
    SetterCalled =>
        LET g == gens[1]
            pre == genOp.pre
        IN  /\ g.turing.register = pre.turing.register
            /\ g.last_degree = pre.last_degree
            /\ g.history = pre.history
            /\ (genOp.name = "set_key" /\ genOp.raised = "none") =>
                  /\ g = [pre EXCEPT
                            !.key = genOp.sarg,
                            !.scale_notes = get_scale_notes(genOp.sarg, pre.scale),
                            !.num_degrees = Len(SCALES[pre.scale])]
                  /\ g.scale_notes[1] = genOp.sarg
                  /\ Len(g.scale_notes) = g.num_degrees
            /\ (genOp.name = "set_scale" /\ genOp.raised = "none") =>
                  /\ g = [pre EXCEPT
                            !.scale = genOp.sarg,
                            !.scale_notes = get_scale_notes(pre.key, genOp.sarg),
                            !.num_degrees = Len(SCALES[genOp.sarg])]
                  /\ g.scale_notes[1] = pre.key
                  /\ Len(g.scale_notes) = g.num_degrees
            /\ genOp.name = "set_voicing" =>
                  g = [pre EXCEPT !.voicing = genOp.sarg]
            /\ genOp.name = "set_mode" =>
                  g = [pre EXCEPT !.mode = genOp.sarg]
            /\ genOp.name = "set_mutation" =>
                  g = [pre EXCEPT
                         !.turing.probability = Clamp(genOp.narg, 0, ProbScale)]
            /\ genOp.name = "set_length" =>
                  g = [pre EXCEPT !.turing.length = Clamp(genOp.narg, 2, 16)]

\* set_scale from a 7-note to a 5-note scale, after a step that left a
\* last_degree other than 0
C18_Witness ==
    /\ genOp.name = "set_scale"
    /\ genOp.raised = "none"
    /\ genOp.pre.num_degrees = 7
    /\ gens[1].num_degrees = 5
    /\ gens[1].scale_notes = <<"C", "D#", "F", "G", "A#">>
    /\ gens[1].last_degree # 0
    /\ gens[1].history # <<>>

\* a name that is in neither note list
UnknownNote(name) ==
    /\ \A i \in 1..Len(SHARPS) : SHARPS[i] # name
    /\ \A i \in 1..Len(FLATS) : FLATS[i] # name

\* a name that is no key of the scale table
UnknownScale(name) == name \notin DOMAIN SCALES

\* C19: an unknown scale name or an unknown key note passed to the
\* constructor, to set_scale or to set_key leaves the call as a ValueError (no
\* generator exists after a failed construction), and a call whose key and
\* scale are both known returns: the error is the one get_scale_notes raises,
\* neither caught nor replaced nor anticipated by the generator (SpecGen).
C19_ValueErrorPropagates ==
    /\ genOp.name = "init" =>
          /\ (UnknownNote(genOp.pre.key) \/ UnknownScale(genOp.pre.scale)) =>
                (genOp.raised = "ValueError" /\ gens = <<>>)
          /\ (~UnknownNote(genOp.pre.key) /\ ~UnknownScale(genOp.pre.scale)) =>
                (genOp.raised = "none" /\ gens = <<genOp.pre>>)
    /\ genOp.name = "set_key" =>
          /\ UnknownNote(genOp.sarg) => genOp.raised = "ValueError"
          /\ (~UnknownNote(genOp.sarg) /\ ~UnknownScale(genOp.pre.scale)) =>
                genOp.raised = "none"
    /\ genOp.name = "set_scale" =>
          /\ UnknownScale(genOp.sarg) => genOp.raised = "ValueError"
          /\ (~UnknownScale(genOp.sarg) /\ ~UnknownNote(genOp.pre.key)) =>
                genOp.raised = "none"
    /\ genOp.name \in {"step", "generate", "set_voicing", "set_mode",
                       "set_mutation", "set_length"} =>
          genOp.raised = "none"

\* set_key with an unknown note on a generator that has stepped
C19_Witness ==
    /\ genOp.name = "set_key"
    /\ genOp.sarg = "H"
    /\ genOp.raised = "ValueError"
    /\ genOp.pre.history # <<>>
    /\ ~UnknownScale(genOp.pre.scale)

\* C20: in raw and in smooth mode, for every scale of 5 to 8 notes, the degree
\* each step() chooses and stores as last_degree lies in [0, num_degrees - 1]
\* of the scale active at that step (SpecGen).
C20_DegreeInRange ==
    genOp.name \in {"step", "generate"} =>
        gens[1].last_degree \in 0..(gens[1].num_degrees - 1)

\* the notes get_diatonic_chord was called on
ChordNotes == get_scale_notes(dc.key, dc.scale)

\* C21: get_diatonic_chord reduces the requested degree modulo the scale's
\* note count: the chord for degree d equals in every field the chord for
\* d mod len(scale_notes), its scale_degree is that residue and its root the
\* note at that index (SpecChord).
C21_DegreeWraps ==
    (dc.done /\ dc.raised = "none") =>
        LET n == Len(ChordNotes)
            w == dc.degree - n * (dc.degree \div n)
        IN  /\ dc.ret = get_diatonic_chord(dc.scale, w, dc.voicing, ChordNotes,
                                           dc.key)
            /\ dc.ret.scale_degree = w
            /\ w \in 0..(n - 1)
            /\ dc.ret.root = ChordNotes[w + 1]

\* degree -1 on a 5-note scale is its last degree
C21_Witness ==
    /\ dc.done
    /\ dc.scale = "minor_pentatonic"
    /\ dc.key = "C"
    /\ dc.degree = -1
    /\ dc.ret.scale_degree = 4
    /\ dc.ret.root = "A#"
    /\ dc.ret.roman = "V"

\* C22: for every scale of SCALES built on a valid key, every integer degree
\* and every voicing name, get_diatonic_chord returns a chord and does not
\* raise; for a voicing name that is not recognised the chord is the one of
\* the 'sevenths' voicing (SpecChord).
C22_NeverRaises ==
    dc.done =>
        /\ dc.raised = "none"
        /\ DOMAIN dc.ret = {"symbol", "quality", "root", "notes",
                            "scale_degree", "roman", "category"}
        /\ dc.voicing \notin {"triads", "sevenths", "extensions", "altered"} =>
              dc.ret = get_diatonic_chord(dc.scale, dc.degree, "sevenths",
                                          ChordNotes, dc.key)

\* an unrecognised voicing on a scale that has no chord map of its own, at a
\* degree beyond the seven entries of the default map
C22_Witness ==
    /\ dc.done
    /\ dc.voicing = "bogus"
    /\ dc.scale = "bebop_major"
    /\ dc.degree = 15
    /\ dc.ret.scale_degree = 7
    /\ dc.ret.roman = "8"
    /\ dc.ret.quality = "maj7"

\* C23: for a smooth-mode generator on a 7-degree scale with last_degree 4,
\* length 8 and probability 1.0, the first step resolves to degree 0 (root =
\* scale_notes[0]) for more than 30% of the seeds 7 * i, i = 0..199, and the
\* degree chosen is 0 for more than 30% of the 256 raw bytes (SpecBias).
C23_ResolvesToTonic ==
    /\ bias.i = Trials => bias.resolved * 10 > Trials * 3
    /\ (bias.i = Trials /\ bias.b = 256) => bias.byte_hits * 10 > 256 * 3

\* both counts are complete: 138 of the 200 seeds and 148 of the 256 bytes
\* resolve to the tonic
C23_Witness ==
    /\ bias.i = Trials
    /\ bias.b = 256
    /\ bias.resolved = 138
    /\ bias.byte_hits = 148

\* the registers n steps of the register lead to from those of S, whatever
\* the draws
RECURSIVE StepsFrom(_, _)
StepsFrom(S, n) ==
    IF n = 0 THEN S
    ELSE StepsFrom({TuringStep(t, r) : t \in S, r \in GenDraws}, n - 1)

\* C24: the mutating calls of concurrent GET /step requests are serialized:
\* once every request has been answered, one generator exists, its history
\* has one record for each request and its register is n steps away from
\* the seed it was built with, n being the number of requests (SpecApiRace).
C24_Serialized ==
    ((\A c \in Clients : api.pc[c] = "idle") /\ api.completed > 0) =>
        /\ Len(gens) = 1
        /\ Len(gens[api.global].history) = api.completed
        /\ gens[api.global].turing \in
              StepsFrom({DefaultGen(api.seeds[api.global]).turing},
                        api.completed)

\* C25: POST /configure on an existing global generator keeps that generator
\* and builds no other; its register, last_degree and history are those
\* before the call; a setting whose parameter was not supplied keeps its
\* value; on success every supplied parameter has been applied (length and
\* mutation clamped) and the register_state of the response is the register
\* before the call (SpecApi, requests handled one at a time).
C25_ConfigureFrame ==
    (api.last.endpoint = "configure" /\ api.last.pre_global # 0) =>
        LET pre  == api.last.pre_heap[api.last.pre_global]
            post == gens[api.global]
            p    == api.last.params
            had(name) == name \in p.given
        IN  /\ api.global = api.last.pre_global
            /\ Len(gens) = Len(api.last.pre_heap)
            /\ \A i \in 1..Len(gens) :
                  i # api.global => gens[i] = api.last.pre_heap[i]
            /\ post.turing.register = pre.turing.register
            /\ post.last_degree = pre.last_degree
            /\ post.history = pre.history
            /\ ~had("key") => post.key = pre.key
            /\ ~had("scale") => post.scale = pre.scale
            /\ (~had("key") /\ ~had("scale")) =>
                  post.scale_notes = pre.scale_notes
            /\ ~had("length") => post.turing.length = pre.turing.length
            /\ ~had("mutation") =>
                  post.turing.probability = pre.turing.probability
            /\ ~had("voicing") => post.voicing = pre.voicing
            /\ ~had("mode") => post.mode = pre.mode
            /\ api.last.status = 200 =>
                  /\ had("key") => post.key = p.key
                  /\ had("scale") => post.scale = p.scale
                  /\ (had("key") \/ had("scale")) =>
                        post.scale_notes = get_scale_notes(post.key, post.scale)
                  /\ had("length") =>
                        post.turing.length = Clamp(p.length, 2, 16)
                  /\ had("mutation") =>
                        post.turing.probability = Clamp(p.mutation, 0, ProbScale)
                  /\ had("voicing") => post.voicing = p.voicing
                  /\ had("mode") => post.mode = p.mode
                  /\ api.last.body.state.register_state = pre.turing.register

\* a generator that has stepped is configured with every parameter and the
\* request succeeds
C25_Witness ==
    /\ api.last.endpoint = "configure"
    /\ api.last.pre_global # 0
    /\ api.last.status = 200
    /\ api.last.params.given = ParamNames
    /\ Len(gens[api.global].history) = 2
    /\ gens[api.global].key = "Bb"
    /\ gens[api.global].mode = "smooth"

\* C26: the mutated flag of a record is true exactly when the record's
\* emitted scale_degree differs from raw_byte % num_degrees, for scales of 5
\* to 8 notes; in raw mode it is false and the emitted scale_degree equals
\* raw_byte % num_degrees (SpecSwitch).
C26_MutatedMeansAltered ==
    genOp.name = "step" =>
        LET raw_degree == genOp.ret.register_value % genOp.pre.num_degrees
        IN  /\ genOp.ret.mutated = (genOp.ret.scale_degree # raw_degree)
            /\ genOp.pre.mode = "raw" =>
                  (~genOp.ret.mutated /\ genOp.ret.scale_degree = raw_degree)

\* C27: in smooth mode, when last_degree is not a key of the transition
\* table, the step chooses raw_byte % num_degrees and reports mutated false
\* (SpecSwitch).
C27_FallbackToRaw ==
    (/\ genOp.name = "step"
     /\ genOp.pre.mode = "smooth"
     /\ genOp.pre.last_degree \notin DOMAIN TRANSITION_WEIGHTS) =>
        /\ gens[1].last_degree = RawByte % genOp.pre.num_degrees
        /\ genOp.ret.scale_degree = RawByte % genOp.pre.num_degrees
        /\ ~genOp.ret.mutated

\* a smooth step from last_degree 7, left by a raw step on the 8-note scale,
\* on a byte whose raw degree the row of degree 0 would have replaced
C27_Witness ==
    /\ genOp.name = "step"
    /\ genOp.pre.mode = "smooth"
    /\ genOp.pre.last_degree = 7
    /\ genOp.pre.num_degrees = 8
    /\ weighted_choice(TRANSITION_WEIGHTS[0], RawByte % 8, 8) # RawByte % 8

\* C28: history is append-only.  Every step() appends exactly the record it
\* returns to the end of history and sets last_degree to the degree chosen in
\* that step; no call removes, reorders or replaces an earlier entry; and
\* len(history) is the number of steps taken since construction (SpecGen).
C28_HistoryAppendOnly ==
    Len(gens) = 1 =>
        LET g == gens[1]
            pre == genOp.pre
        IN  /\ Len(g.history) = genOp.steps
            /\ SubSeq(g.history, 1, Len(pre.history)) = pre.history
            /\ genOp.name = "step" =>
                  /\ g.history = Append(pre.history, genOp.ret)
                  /\ g.last_degree = ChooseDegree(pre, RawByte)
            /\ genOp.name = "generate" =>
                  Len(g.history) = Len(pre.history) + genOp.narg
            /\ SetterCalled => g.history = pre.history

\* a step after a generate(3): four records, the first three as before
C28_Witness ==
    /\ Len(gens) = 1
    /\ genOp.name = "step"
    /\ genOp.steps = 4
    /\ Len(gens[1].history) = 4
    /\ gens[1].history[4] = genOp.ret
    /\ gens[1].history[4] # gens[1].history[3]

\* C29: the mutation probability decides the flip at its extremes, whatever
\* random.random() returns: at probability 1 a step re-inserts the complement
\* of the exiting bit 0 at bit L-1, at probability 0 it re-inserts bit 0
\* itself.  Checked on every reachable register for every value of the random
\* source (SpecReg).
C29_ExtremesDecide ==
    /\ \A r \in RandomFloats : FlipDecision(r, ProbScale) /\ ~FlipDecision(r, 0)
    /\ turing.probability = ProbScale =>
          \A r \in RandomFloats :
              Bit(TuringStep(turing, r).register, turing.length - 1)
                  = 1 - Bit(turing.register, 0)
    /\ turing.probability = 0 =>
          \A r \in RandomFloats :
              Bit(TuringStep(turing, r).register, turing.length - 1)
                  = Bit(turing.register, 0)

\* a step at probability 1 and length 16 that took a 1 out of bit 0 and put a
\* 0 into bit 15
C29_Witness ==
    /\ lastOp.name = "step"
    /\ lastOp.pre.probability = ProbScale
    /\ lastOp.pre.length = 16
    /\ Bit(lastOp.pre.register, 0) = 1
    /\ Bit(turing.register, 15) = 0

\* the sum of a list of durations, as a pair <<n, d>>
RECURSIVE DurationSum(_)
DurationSum(durations) ==
    IF durations = <<>> THEN <<0, 1>>
    ELSE LET rest == DurationSum(Tail(durations))
             head == Head(durations)
         IN  <<head[1] * rest[2] + rest[1] * head[2], head[2] * rest[2]>>

\* the sum of the first i entries of a pattern
RECURSIVE EntrySum(_, _)
EntrySum(pattern, i) ==
    IF i = 0 THEN 0 ELSE pattern[i] + EntrySum(pattern, i - 1)

\* the number of consecutive 0 entries right after bar i
RECURSIVE HoldsAfter(_, _)
HoldsAfter(pattern, i) ==
    IF i + 1 <= Len(pattern) /\ pattern[i + 1] = 0
    THEN 1 + HoldsAfter(pattern, i + 1) ELSE 0

\* what the claim says of the call recorded in rh
ExpandAsClaimed ==
    /\ (rh.raised = "ValueError") = (rh.pattern = <<>> \/ rh.pattern[1] = 0)
    /\ rh.raised = "none" =>
          /\ Len(rh.ret) = EntrySum(rh.pattern, Len(rh.pattern))
          /\ \A i \in 1..Len(rh.pattern) :
                LET k == rh.pattern[i]
                    start == EntrySum(rh.pattern, i - 1)
                IN  k > 0 =>
                      /\ \A m \in 1..(k - 1) :
                            rh.ret[start + m] = <<rh.beats, k>>
                      /\ rh.ret[start + k]
                            = <<rh.beats
                                  + HoldsAfter(rh.pattern, i) * rh.beats * k,
                                k>>
          /\ DurationSum(rh.ret)[1]
                = Len(rh.pattern) * rh.beats * DurationSum(rh.ret)[2]

C31_SimpleToPattern ==
    rh.simple =>
        LET rejected == rh.bars < 1 \/ rh.chords < 1
                        \/ (rh.bars > 1 /\ rh.chords > 1)
        IN  /\ (rh.fn = "simple_to_pattern" /\ rh.done) =>
                  (rejected /\ rh.raised = "ValueError")
            /\ rh.fn = "expand_pattern" =>
                  /\ ~rejected
                  /\ rh.bars > 1 =>
                        /\ Len(rh.pattern) = rh.bars
                        /\ rh.pattern[1] = 1
                        /\ \A i \in 2..rh.bars : rh.pattern[i] = 0
                  /\ (rh.bars = 1 /\ rh.chords > 1) =>
                        rh.pattern = <<rh.chords>>
                  /\ (rh.bars = 1 /\ rh.chords = 1) => rh.pattern = <<1>>
                  /\ rh.done =>
                        /\ rh.raised = "none"
                        /\ Len(rh.ret) = rh.chords
                        /\ \A k \in 1..Len(rh.ret) :
                              rh.ret[k][1] * rh.chords
                                 = rh.bars * rh.beats * rh.ret[k][2]

\* three bars per chord in 3/4: the pattern 1, 0, 0 expands to one chord of
\* 9 beats
C31_Witness ==
    /\ rh.simple
    /\ rh.fn = "expand_pattern"
    /\ rh.done
    /\ rh.bars = 3
    /\ rh.chords = 1
    /\ rh.beats = 3
    /\ rh.pattern = <<1, 0, 0>>
    /\ Len(rh.ret) = 1
    /\ rh.ret[1][1] = 9 * rh.ret[1][2]

\* C32: a set_key or set_scale that raises leaves the generator as it was,
\* and after every call the stored key and scale are known names whose scale
\* notes and note count are the stored scale_notes and num_degrees (SpecGen).
C32_FailedSetterUnchanged ==
    /\ (genOp.name \in {"set_key", "set_scale"} /\ genOp.raised # "none") =>
          gens[1] = genOp.pre
    /\ gens # <<>> =>
          /\ ~get_scale_notes_raises(gens[1].key, gens[1].scale)
          /\ gens[1].scale_notes = get_scale_notes(gens[1].key, gens[1].scale)
          /\ gens[1].num_degrees = Len(gens[1].scale_notes)

\* C33: step() on a constructed generator does not raise, whatever setter
\* calls came before, failed ones included: it returns the record it appends
\* to the history, so the register advances by one step exactly when the
\* history grows by one record (SpecGen).
C33_StepNeverRaises ==
    genOp.name = "step" =>
        /\ genOp.raised = "none"
        /\ gens[1].turing = TuringStep(genOp.pre.turing, genOp.draws[1])
        /\ Len(gens[1].history) = Len(genOp.pre.history) + 1
        /\ genOp.ret = gens[1].history[Len(gens[1].history)]
        /\ DOMAIN genOp.ret = {"symbol", "quality", "root", "notes",
                               "scale_degree", "roman", "category",
                               "register_value", "mutated"}

\* a step after a set_scale that raised and left an unknown scale name
C33_Witness ==
    /\ genOp.name = "step"
    /\ genOp.pre.scale = "bogus"
    /\ genOp.raised = "none"
    /\ Len(gens[1].history) = 1

\* C34: with the probability at 1 and loop length L, the low L bits of the
\* register after L steps are the complement of what they were, the register
\* after 2L steps has its starting value, and the outputs repeat with period
\* 2L (SpecFlip; refuted for a seed outside 0..65535, which the constructor
\* stores unmasked).
C34_FlipPeriod ==
    saved.phase = "flipping" =>
        LET L == turing.length
            n == Len(saved.after)
            reg(k) == IF k = 0 THEN saved.state ELSE saved.after[k]
        IN  /\ \A k \in 0..(n - L) :
                  AndMask(reg(k + L), L) = (Shl1(L) - 1) - AndMask(reg(k), L)
            /\ n >= 2 * L => reg(2 * L) = saved.state
            /\ \A k \in 1..(n - 2 * L) : outs[k + 2 * L] = outs[k]

\* what C35 says of a request that is not a GET /progression: GET /step and
\* POST /configure build a default generator only when none exists and
\* otherwise keep the global generator; a step appends one record to it
StepAndConfigureKeep ==
    api.last.endpoint \in {"step", "configure"} =>
        /\ IF api.last.pre_global = 0
           THEN /\ Len(gens) = Len(api.last.pre_heap) + 1
                /\ api.global = Len(gens)
           ELSE /\ Len(gens) = Len(api.last.pre_heap)
                /\ api.global = api.last.pre_global
        /\ (api.last.endpoint = "step" /\ api.last.pre_global # 0) =>
              /\ Len(gens[api.global].history)
                    = Len(api.last.pre_heap[api.global].history) + 1
              /\ SubSeq(gens[api.global].history, 1,
                        Len(api.last.pre_heap[api.global].history))
                    = api.last.pre_heap[api.global].history

\* what C35 says of a GET /progression: the global names a generator that
\* did not exist before, whose history is exactly the count chords of the
\* response and whose register is count steps away from the seed parameter;
\* the generators built earlier are as they were
ProgressionReplaces ==
    LET p == api.last.params
        g == gens[api.global]
    IN  /\ api.last.status = 200
        /\ Len(gens) = Len(api.last.pre_heap) + 1
        /\ api.global = Len(gens)
        /\ SubSeq(gens, 1, Len(api.last.pre_heap)) = api.last.pre_heap
        /\ Len(api.last.body.chords) = p.count
        /\ g.history = api.last.body.chords
        /\ p.count = 0 => g.last_degree = 0
        /\ g.turing = RegisterAfter(
                          [register |-> p.seed, length |-> p.length,
                           probability |-> p.mutation],
                          [i \in 1..p.count |-> 0], p.count)
        /\ api.last.body.register_state = g.turing.register

\* C35 as stated: every GET /progression replaces the global generator with
\* a new one and returns exactly count chords of it, and GET /step and POST
\* /configure build a generator only when none exists (SpecApi; refuted by a
\* GET /progression with an unknown key, which raises and replaces nothing).
C35_ProgressionAlwaysReplaces ==
    /\ api.last.endpoint = "progression" => ProgressionReplaces
    /\ StepAndConfigureKeep

\* C35, amended: a GET /progression whose key and scale are known replaces
\* the global generator with a new one and returns exactly count chords of
\* it; one whose key or scale is unknown raises and leaves the global
\* generator and every generator as they were; GET /step and POST /configure
\* build a generator only when none exists (SpecApi).
C35_ProgressionReplaces ==
    /\ api.last.endpoint = "progression" =>
          IF get_scale_notes_raises(api.last.params.key, api.last.params.scale)
          THEN /\ api.last.status = 500
               /\ gens = api.last.pre_heap
               /\ api.global = api.last.pre_global
          ELSE ProgressionReplaces
    /\ StepAndConfigureKeep

\* a second GET /progression, on a generator that has a history, returns
\* its two chords
C35_Witness ==
    /\ api.last.endpoint = "progression"
    /\ api.last.status = 200
    /\ api.last.pre_global # 0
    /\ api.last.pre_heap[api.last.pre_global].history # <<>>
    /\ api.last.params.count = 2
    /\ Len(gens[api.global].history) = 2
    /\ api.global = 2

====
